---- MODULE Spec2Model ----
(***************************************************************************)
(* Lensfun lens calibration store and parameter interpolator.              *)
(*                                                                         *)
(* The model follows libs/lensfun/lens.cpp and libs/lensfun/auxfun.cpp.    *)
(* C floats are modelled by exact rationals <<numerator, denominator>>;    *)
(* focal lengths, apertures and distances of the inputs are integers.      *)
(* C arrays are 0-based and so are the functions that model them.          *)
(***************************************************************************)
EXTENDS Integers, Sequences, FiniteSets, TLC

(* Bound on the number of records in one calibration list. *)
MaxLen == 3

(***************************************************************************)
(* State: the fields of one lfLens object, the callback chains of one      *)
(* lfModifier object, the file-scope statics of lens.cpp and the last call *)
(* made.                                                                   *)
(***************************************************************************)
VARIABLES
    CalibDistortion, CalibTCA, CalibVignetting, CalibCrop, CalibFov,
    MinFocal, MaxFocal, MinAperture, MaxAperture, Model,
    Maker, Mounts, CenterX, CenterY, CropFactor, AspectRatio, Type,
    SubpixelCallbacks, ColorCallbacks, CoordCallbacks,   \* the chains of one lfModifier
    _lf_lens_regex_refs,   \* static int _lf_lens_regex_refs
    lens_name_regex,       \* the compiled flags of lens_name_regex [0..2]
    live,                  \* the number of lfLens objects constructed and not destroyed
    uncompiled_use,        \* regexec ran on a lens_name_regex that was not compiled
    op,     \* the last call made on the lens
    arg,    \* its argument (for GuessParameters, which has none: the call before it)
    pre,    \* the list (or fields) it works on, as they were before the call
    ret,    \* its return value
    res0,   \* the caller's output record before the call
    res     \* the caller's output record after the call

(***************************************************************************)
(* Exact rational arithmetic standing for float arithmetic.                *)
(***************************************************************************)
Abs(x) == IF x < 0 THEN -x ELSE x

RECURSIVE GCD(_, _)
GCD(a, b) == IF b = 0 THEN a ELSE GCD(b, a % b)

Rat(n, d) ==
    IF d = 0 THEN <<0, 0>>
    ELSE LET s == IF d < 0 THEN -1 ELSE 1
             g == GCD(Abs(n), Abs(d))
         IN  <<(s * n) \div g, (s * d) \div g>>

R(n) == <<n, 1>>

(* NAN is the only value with a zero denominator. *)
NAN == <<0, 0>>

FLT_MAX == 2147483647

(* Arithmetic on NAN gives NAN, as in IEEE 754. *)
RAdd(a, b) ==
    IF a[2] = 0 \/ b[2] = 0 THEN NAN
    ELSE LET l == (a[2] \div GCD(a[2], b[2])) * b[2]
         IN  Rat(a[1] * (l \div a[2]) + b[1] * (l \div b[2]), l)

RNeg(a) == <<-a[1], a[2]>>

RSub(a, b) == RAdd(a, RNeg(b))

RMul(a, b) ==
    IF a[2] = 0 \/ b[2] = 0 THEN NAN
    ELSE LET g1 == GCD(Abs(a[1]), b[2])
             g2 == GCD(Abs(b[1]), a[2])
         IN  Rat((a[1] \div g1) * (b[1] \div g2), (a[2] \div g2) * (b[2] \div g1))

RDiv(a, b) == RMul(a, Rat(b[2], b[1]))

RECURSIVE RPow(_, _)
RPow(a, e) == IF e = 0 THEN R(1) ELSE RMul(a, RPow(a, e - 1))

square(x) == RMul(x, x)

Min(S) == CHOOSE x \in S : \A y \in S : x <= y

(***************************************************************************)
(* Calibration records (lensfun.h).                                        *)
(***************************************************************************)
DistortionModels == {"LF_DIST_MODEL_NONE", "LF_DIST_MODEL_POLY3", "LF_DIST_MODEL_ACM"}

TCAModels == {"LF_TCA_MODEL_NONE", "LF_TCA_MODEL_LINEAR", "LF_TCA_MODEL_ACM"}

VignettingModels == {"LF_VIGNETTING_MODEL_NONE", "LF_VIGNETTING_MODEL_PA", "LF_VIGNETTING_MODEL_ACM"}

CropModes == {"LF_NO_CROP", "LF_CROP_RECTANGLE", "LF_CROP_CIRCLE"}

(* A number that tells the models of one kind apart in the sample terms. *)
ModelTag(m) ==
    IF m \in {"LF_DIST_MODEL_NONE", "LF_TCA_MODEL_NONE", "LF_VIGNETTING_MODEL_NONE", "LF_NO_CROP"}
    THEN 0
    ELSE IF m \in {"LF_DIST_MODEL_POLY3", "LF_TCA_MODEL_LINEAR", "LF_VIGNETTING_MODEL_PA", "LF_CROP_RECTANGLE"}
    THEN 1
    ELSE 2

lfLensCalibDistortion(m, f) ==
    [Model |-> m, Focal |-> f, RealFocal |-> R(f + ModelTag(m)),
     RealFocalMeasured |-> (m = "LF_DIST_MODEL_ACM"),
     Terms |-> [i \in 0..4 |-> IF i = 0 THEN R(f) ELSE IF i = 1 THEN R(ModelTag(m)) ELSE R(0)]]

lfLensCalibTCA(m, f) ==
    [Model |-> m, Focal |-> f,
     Terms |-> [i \in 0..11 |-> IF i < 2 THEN R(1) ELSE IF i = 2 THEN R(f) ELSE IF i = 3 THEN R(ModelTag(m)) ELSE R(0)]]

lfLensCalibVignetting(m, f, a, d) ==
    [Model |-> m, Focal |-> f, Aperture |-> a, Distance |-> d,
     Terms |-> [i \in 0..2 |-> IF i = 0 THEN R(-f) ELSE IF i = 1 THEN R(a + d) ELSE R(ModelTag(m))]]

lfLensCalibCrop(m, f) ==
    [Focal |-> f, CropMode |-> m,
     Crop |-> [i \in 0..3 |-> IF i = 0 THEN R(f) ELSE IF i = 1 THEN R(ModelTag(m)) ELSE R(0)]]

lfLensCalibFov(fov, f) == [Focal |-> f, FieldOfView |-> R(fov)]

(* The records the callers pass to AddCalib*. *)
Focals == {1, 3, 5}

DistortionInputs == {lfLensCalibDistortion(m, f) : m \in DistortionModels, f \in Focals}

TCAInputs == {lfLensCalibTCA(m, f) : m \in TCAModels, f \in Focals}

(* <<Focal, Aperture, Distance>> *)
VignettingKeys == {<<1, 2, 1>>, <<2, 2, 1>>, <<1, 2, 2>>}

VignettingInputs == {lfLensCalibVignetting(m, k[1], k[2], k[3]) : m \in VignettingModels, k \in VignettingKeys}

CropInputs == {lfLensCalibCrop(m, f) : m \in CropModes, f \in Focals}

FovInputs == {lfLensCalibFov(v, f) : v \in {0, 90}, f \in Focals}

(* The focal lengths the callers query. *)
QueryFocals == {1, 2, 4, 6}

(* The caller's output record before an Interpolate* call. *)
PriorDistortion == {[Model |-> "LF_DIST_MODEL_POLY3", Focal |-> 9, RealFocal |-> R(9),
                     RealFocalMeasured |-> b, Terms |-> [i \in 0..4 |-> R(7)]] : b \in {FALSE}}

PriorTCA == [Model |-> "LF_TCA_MODEL_LINEAR", Focal |-> 9, Terms |-> [i \in 0..11 |-> R(7)]]

PriorVignetting == [Model |-> "LF_VIGNETTING_MODEL_PA", Focal |-> 9, Aperture |-> 9, Distance |-> 9,
                    Terms |-> [i \in 0..2 |-> R(7)]]

PriorCrop == [Focal |-> 9, CropMode |-> "LF_CROP_RECTANGLE", Crop |-> [i \in 0..3 |-> R(7)]]

PriorFov == [Focal |-> 9, FieldOfView |-> R(7)]

(* The focal ranges a database entry gives to the lens: unknown, or 0..20000. *)
FocalRanges == {<<0, 0>>, <<0, 20000>>}

(***************************************************************************)
(* NULL-terminated arrays of pointers (auxfun.cpp).                        *)
(* A list is [alloc, arr]: alloc is FALSE for a NULL list pointer, arr is  *)
(* the allocated array of slots.  A slot is NULL (<<>>), a pointer to a    *)
(* heap copy of a record (<<record>>) or a pointer to the record of the    *)
(* caller, whose content is arg.                                           *)
(***************************************************************************)
NullSlot == <<>>

CallerPtr == <<"caller", "record">>

Deref(p) == IF Len(p) = 2 THEN arg ELSE p[1]

NullList == [alloc |-> FALSE, arr |-> <<>>]

(* for (n = 0; var [n]; n++): the number of slots before the first NULL. *)
ListLen(arr) ==
    IF \E i \in 1..Len(arr) : arr[i] = NullSlot
    THEN Min({i \in 1..Len(arr) : arr[i] = NullSlot}) - 1
    ELSE Len(arr)

(* The records of a list, in order. *)
Records(var) == [i \in 1..(IF var.alloc THEN ListLen(var.arr) ELSE 0) |-> Deref(var.arr[i])]

(* The slot keeps the caller's pointer instead of a copy of the record. *)
store_pointer(val) == CallerPtr

(* malloc + memcpy of the value. *)
alloc_copy(val) == <<val>>

(* The comparison takes the Model for a part of the key. *)
cmp_distortion_model(d1, d2) == d1.Focal = d2.Focal /\ d1.Model = d2.Model

cmp_distortion(d1, d2) == d1.Focal = d2.Focal

cmp_tca(t1, t2) == t1.Focal = t2.Focal

cmp_vignetting(v1, v2) ==
    /\ v1.Focal = v2.Focal
    /\ v1.Distance = v2.Distance
    /\ v1.Aperture = v2.Aperture

cmp_lenscrop(d1, d2) == d1.Focal = d2.Focal

cmp_lensfov(d1, d2) == d1.Focal = d2.Focal

(* The call through the function pointer cmpf, a pointer being modelled by *)
(* the name of the function it points to.                                  *)
call_cmpf(cmpf, a, b) ==
    CASE cmpf = "cmp_distortion" -> cmp_distortion(a, b)
      [] cmpf = "cmp_tca"        -> cmp_tca(a, b)
      [] cmpf = "cmp_vignetting" -> cmp_vignetting(a, b)
      [] cmpf = "cmp_lenscrop"   -> cmp_lenscrop(a, b)
      [] cmpf = "cmp_lensfov"    -> cmp_lensfov(a, b)
      [] cmpf = "NULL"           -> FALSE

_lf_addobj(var, val, cmpf) ==
    LET len  == IF var.alloc THEN ListLen(var.arr) ELSE 0
        hits == {n \in 1..len : call_cmpf(cmpf, val, Deref(var.arr[n]))}
    IN  IF hits # {}
        THEN [var EXCEPT !.arr[Min(hits)] = alloc_copy(val)]
        ELSE [alloc |-> TRUE,
              arr   |-> SubSeq(var.arr, 1, len) \o <<alloc_copy(val), NullSlot>>]

(* memmove of cnt slots from 0-based position src to 0-based position dst. *)
(* The count is one slot short: the NULL terminator is not moved. *)
memmove_short(arr, dst, src, cnt) ==
    [i \in 1..Len(arr) |-> IF i - 1 >= dst /\ i - 1 < dst + cnt - 1 THEN arr[i - dst + src] ELSE arr[i]]

memmove(arr, dst, src, cnt) ==
    [i \in 1..Len(arr) |->
        IF i - 1 >= dst /\ i - 1 < dst + cnt THEN arr[i - dst + src] ELSE arr[i]]

_lf_delobj(var, idx) ==
    IF ~var.alloc
    THEN [ret |-> FALSE, var |-> var]
    ELSE LET len == ListLen(var.arr)
         IN  IF idx < 0 \/ idx >= len
             THEN [ret |-> FALSE, var |-> var]
             ELSE [ret |-> TRUE,
                   var |-> [alloc |-> TRUE,
                            arr   |-> SubSeq(memmove(var.arr, idx, idx + 1, len - idx), 1, len)]]

(***************************************************************************)
(* Coefficient interpolation (lens.cpp).                                   *)
(* The four spline slots hold 1-based positions in the list, 0 for NULL.   *)
(***************************************************************************)
NoSpline == [spline |-> [k \in 0..3 |-> 0],
             spline_dist |-> [k \in 0..3 |-> IF k < 2 THEN -FLT_MAX ELSE FLT_MAX]]

(* The first neighbour of a side goes to the outer slot, not the inner one. *)
__insert_spline_outer(sp, dist, val) ==
    IF dist < 0
    THEN IF dist > sp.spline_dist[0]
         THEN [spline |-> [sp.spline EXCEPT ![0] = val],
               spline_dist |-> [sp.spline_dist EXCEPT ![0] = dist]]
         ELSE sp
    ELSE IF dist < sp.spline_dist[3]
         THEN [spline |-> [sp.spline EXCEPT ![3] = val],
               spline_dist |-> [sp.spline_dist EXCEPT ![3] = dist]]
         ELSE sp

(* The first neighbour of a side keeps the inner slot, the nearest of *)
(* the later ones takes the outer slot.                               *)
__insert_spline_first(sp, dist, val) ==
    IF dist < 0
    THEN IF sp.spline[1] = 0
         THEN [spline |-> [sp.spline EXCEPT ![1] = val],
               spline_dist |-> [sp.spline_dist EXCEPT ![1] = dist]]
         ELSE IF dist > sp.spline_dist[0]
         THEN [spline |-> [sp.spline EXCEPT ![0] = val],
               spline_dist |-> [sp.spline_dist EXCEPT ![0] = dist]]
         ELSE sp
    ELSE IF sp.spline[2] = 0
         THEN [spline |-> [sp.spline EXCEPT ![2] = val],
               spline_dist |-> [sp.spline_dist EXCEPT ![2] = dist]]
         ELSE IF dist < sp.spline_dist[3]
         THEN [spline |-> [sp.spline EXCEPT ![3] = val],
               spline_dist |-> [sp.spline_dist EXCEPT ![3] = dist]]
         ELSE sp

(* A nearer neighbour takes the inner slot and the record that held it *)
(* is dropped instead of moving to the outer slot.                     *)
__insert_spline_drop(sp, dist, val) ==
    IF dist < 0
    THEN IF dist > sp.spline_dist[1]
         THEN [spline |-> [sp.spline EXCEPT ![1] = val],
               spline_dist |-> [sp.spline_dist EXCEPT ![1] = dist]]
         ELSE IF dist > sp.spline_dist[0]
         THEN [spline |-> [sp.spline EXCEPT ![0] = val],
               spline_dist |-> [sp.spline_dist EXCEPT ![0] = dist]]
         ELSE sp
    ELSE IF dist < sp.spline_dist[2]
         THEN [spline |-> [sp.spline EXCEPT ![2] = val],
               spline_dist |-> [sp.spline_dist EXCEPT ![2] = dist]]
         ELSE IF dist < sp.spline_dist[3]
         THEN [spline |-> [sp.spline EXCEPT ![3] = val],
               spline_dist |-> [sp.spline_dist EXCEPT ![3] = dist]]
         ELSE sp

__insert_spline(sp, dist, val) ==
    IF dist < 0
    THEN IF dist > sp.spline_dist[1]
         THEN [spline |-> [sp.spline EXCEPT ![0] = sp.spline[1], ![1] = val],
               spline_dist |-> [sp.spline_dist EXCEPT ![0] = sp.spline_dist[1], ![1] = dist]]
         ELSE IF dist > sp.spline_dist[0]
         THEN [spline |-> [sp.spline EXCEPT ![0] = val],
               spline_dist |-> [sp.spline_dist EXCEPT ![0] = dist]]
         ELSE sp
    ELSE IF dist < sp.spline_dist[2]
         THEN [spline |-> [sp.spline EXCEPT ![3] = sp.spline[2], ![2] = val],
               spline_dist |-> [sp.spline_dist EXCEPT ![3] = sp.spline_dist[2], ![2] = dist]]
         ELSE IF dist < sp.spline_dist[3]
         THEN [spline |-> [sp.spline EXCEPT ![3] = val],
               spline_dist |-> [sp.spline_dist EXCEPT ![3] = dist]]
         ELSE sp

(* The tangent at an inner point without outer neighbour is 0. *)
_lf_interpolate_flat(y1, y2, y3, y4, t) ==
    LET t2  == RMul(t, t)
        t3  == RMul(t2, t)
        tg2 == IF y1 = R(FLT_MAX) THEN R(0) ELSE RMul(RSub(y3, y1), Rat(1, 2))
        tg3 == IF y4 = R(FLT_MAX) THEN R(0) ELSE RMul(RSub(y4, y2), Rat(1, 2))
    IN  RAdd(RAdd(RMul(RAdd(RSub(RMul(R(2), t3), RMul(R(3), t2)), R(1)), y2),
                  RMul(RAdd(RSub(t3, RMul(R(2), t2)), t), tg2)),
             RAdd(RMul(RAdd(RMul(R(-2), t3), RMul(R(3), t2)), y3),
                  RMul(RSub(t3, t2), tg3)))

_lf_interpolate(y1, y2, y3, y4, t) ==
    LET t2  == RMul(t, t)
        t3  == RMul(t2, t)
        tg2 == IF y1 = R(FLT_MAX) THEN RSub(y3, y2) ELSE RMul(RSub(y3, y1), Rat(1, 2))
        tg3 == IF y4 = R(FLT_MAX) THEN RSub(y3, y2) ELSE RMul(RSub(y4, y2), Rat(1, 2))
    IN  RAdd(RAdd(RMul(RAdd(RSub(RMul(R(2), t3), RMul(R(3), t2)), R(1)), y2),
                  RMul(RAdd(RSub(t3, RMul(R(2), t2)), t), tg2)),
             RAdd(RMul(RAdd(RMul(R(-2), t3), RMul(R(3), t2)), y3),
                  RMul(RSub(t3, t2), tg3)))

(* The exponent of a term of ACM TCA is its index. *)
__parameter_scales_index(v, type, model, index) ==
    IF v = NAN THEN NAN
    ELSE IF type = "LF_MODIFY_DISTORTION"
    THEN IF model = "LF_DIST_MODEL_ACM"
         THEN RDiv(v, RPow(v, IF index < 3 THEN 2 * (index + 1) ELSE 1))
         ELSE v
    ELSE IF type = "LF_MODIFY_TCA"
    THEN IF model \in {"LF_TCA_MODEL_LINEAR", "LF_TCA_MODEL_POLY3"}
         THEN IF index < 2 THEN R(1) ELSE v
         ELSE IF model = "LF_TCA_MODEL_ACM"
         THEN RDiv(v, RPow(v, IF index > 1 /\ index < 8 THEN index ELSE 1))
         ELSE v
    ELSE IF type = "LF_MODIFY_VIGNETTING"
    THEN IF model = "LF_VIGNETTING_MODEL_PA"
         THEN R(1)
         ELSE IF model = "LF_VIGNETTING_MODEL_ACM"
         THEN RDiv(R(1), RPow(v, 2 * (index + 1)))
         ELSE v
    ELSE v

(* No model scales its terms: every scale factor is 1. *)
__parameter_scales_unit(v, type, model, index) == IF v = NAN THEN NAN ELSE R(1)

(* One entry of the values array of __parameter_scales: the focal length  *)
(* v is replaced by the scale factor of term index under the model.       *)
__parameter_scales(v, type, model, index) ==
    IF v = NAN THEN NAN
    ELSE IF type = "LF_MODIFY_DISTORTION"
    THEN IF model = "LF_DIST_MODEL_ACM"
         THEN RDiv(v, RPow(v, IF index < 3 THEN 2 * (index + 1) ELSE 1))
         ELSE v
    ELSE IF type = "LF_MODIFY_TCA"
    THEN IF model \in {"LF_TCA_MODEL_LINEAR", "LF_TCA_MODEL_POLY3"}
         THEN IF index < 2 THEN R(1) ELSE v
         ELSE IF model = "LF_TCA_MODEL_ACM"
         THEN RDiv(v, RPow(v, IF index > 1 /\ index < 8 THEN (index \div 2) * 2 ELSE 1))
         ELSE v
    ELSE IF type = "LF_MODIFY_VIGNETTING"
    THEN IF model = "LF_VIGNETTING_MODEL_PA"
         THEN R(1)
         ELSE IF model = "LF_VIGNETTING_MODEL_ACM"
         THEN RDiv(R(1), RPow(v, 2 * (index + 1)))
         ELSE v
    ELSE v

(* The state of the scan loops: the latched model, the spline slots, the  *)
(* position of an exact match (0 for none) and the count of usable records. *)
ScanStart(none) == [model |-> none, sp |-> NoSpline, match |-> 0, counter |-> 0]

(* The model of a record: CropMode for a crop record, Model otherwise. *)
ModelOf(c) == IF "CropMode" \in DOMAIN c THEN c.CropMode ELSE c.Model

(* The loop leaves at an exact match (break) without returning the record. *)
RECURSIVE ScanModelBreak(_, _, _, _, _)
ScanModelBreak(recs, i, focal, none, st) ==
    IF i > Len(recs) THEN st
    ELSE LET c == recs[i] IN
         IF ModelOf(c) = none
         THEN ScanModelBreak(recs, i + 1, focal, none, st)
         ELSE IF st.model # none /\ st.model # ModelOf(c)
         THEN ScanModelBreak(recs, i + 1, focal, none, st)
         ELSE LET st1 == [st EXCEPT !.model = ModelOf(c)]
                  df  == focal - c.Focal
              IN  IF df = 0
                  THEN st1
                  ELSE ScanModelBreak(recs, i + 1, focal, none,
                                      [st1 EXCEPT !.sp = __insert_spline(st1.sp, df, i)])

(* The loop takes the records of every model but NONE and reports the *)
(* model of the last one it took.                                      *)
RECURSIVE ScanModelRelatch(_, _, _, _, _)
ScanModelRelatch(recs, i, focal, none, st) ==
    IF i > Len(recs) THEN st
    ELSE LET c == recs[i] IN
         IF ModelOf(c) = none
         THEN ScanModelRelatch(recs, i + 1, focal, none, st)
         ELSE LET st1 == [st EXCEPT !.model = ModelOf(c)]
                  df  == focal - c.Focal
              IN  IF df = 0
                  THEN [st1 EXCEPT !.match = i]
                  ELSE ScanModelRelatch(recs, i + 1, focal, none,
                                        [st1 EXCEPT !.sp = __insert_spline(st1.sp, df, i)])

(* The scan loop of InterpolateDistortion, InterpolateTCA and             *)
(* InterpolateCrop, from position i on; none is the NONE model of the kind. *)
RECURSIVE ScanModel(_, _, _, _, _)
ScanModel(recs, i, focal, none, st) ==
    IF i > Len(recs) THEN st
    ELSE LET c == recs[i] IN
         IF ModelOf(c) = none
         THEN ScanModel(recs, i + 1, focal, none, st)
         ELSE IF st.model # none /\ st.model # ModelOf(c)
         THEN ScanModel(recs, i + 1, focal, none, st)
         ELSE LET st1 == [st EXCEPT !.model = ModelOf(c)]
                  df  == focal - c.Focal
              IN  IF df = 0
                  THEN [st1 EXCEPT !.match = i]
                  ELSE ScanModel(recs, i + 1, focal, none,
                                 [st1 EXCEPT !.sp = __insert_spline(st1.sp, df, i)])

(* The interpolation parameter t of the two inner slots. *)
SplineT(recs, sp, focal) ==
    Rat(focal - recs[sp.spline[1]].Focal, recs[sp.spline[2]].Focal - recs[sp.spline[1]].Focal)

(* float values [5] = {spline [0] ? Focal : NAN, ..., focal}, scaled. *)
SplineValues(recs, sp, focal, type, model, i) ==
    [k \in 0..4 |->
        __parameter_scales(
            IF k = 4 THEN R(focal)
            ELSE IF sp.spline[k] = 0 THEN NAN
            ELSE R(recs[sp.spline[k]].Focal),
            type, model, i)]

(* One interpolated term: ys [k] is the value read from spline [k] (for a *)
(* slot that is not NULL), values scales it.                              *)
SplineTerm(ys, sp, values, t) ==
    RDiv(_lf_interpolate(
            IF sp.spline[0] # 0 THEN RMul(ys[0], values[0]) ELSE R(FLT_MAX),
            RMul(ys[1], values[1]),
            RMul(ys[2], values[2]),
            IF sp.spline[3] # 0 THEN RMul(ys[3], values[3]) ELSE R(FLT_MAX),
            t),
         values[4])

(* The records the four slots point to, a NULL slot reading as record 1   *)
(* (its value is not used).                                               *)
SplineRecords(recs, sp) == [k \in 0..3 |-> recs[IF sp.spline[k] # 0 THEN sp.spline[k] ELSE 1]]

NoScale == [k \in 0..4 |-> R(1)]

(* The positions of the records a result was computed from. *)
UsedSlots(st) ==
    IF st.match # 0 THEN {st.match}
    ELSE IF st.sp.spline[1] = 0 \/ st.sp.spline[2] = 0
    THEN IF st.sp.spline[1] # 0 THEN {st.sp.spline[1]}
         ELSE IF st.sp.spline[2] # 0 THEN {st.sp.spline[2]}
         ELSE {}
    ELSE {st.sp.spline[k] : k \in 0..3} \ {0}

InterpolateDistortion(list, focal, out) ==
    IF ~list.alloc THEN [ret |-> FALSE, res |-> out, used |-> {}]
    ELSE
    LET recs == Records(list)
        st   == ScanModel(recs, 1, focal, "LF_DIST_MODEL_NONE",
                          ScanStart("LF_DIST_MODEL_NONE"))
        sp   == st.sp
        t    == SplineT(recs, sp, focal)
        pts  == SplineRecords(recs, sp)
    IN  IF st.match # 0
        THEN [ret |-> TRUE, res |-> recs[st.match], used |-> UsedSlots(st)]
        ELSE IF sp.spline[1] = 0 \/ sp.spline[2] = 0
        THEN IF sp.spline[1] # 0
             THEN [ret |-> TRUE, res |-> recs[sp.spline[1]], used |-> UsedSlots(st)]
             ELSE IF sp.spline[2] # 0
             THEN [ret |-> TRUE, res |-> recs[sp.spline[2]], used |-> UsedSlots(st)]
             ELSE [ret |-> FALSE, res |-> out, used |-> {}]
        ELSE [ret  |-> TRUE,
              used |-> UsedSlots(st),
              res  |-> [out EXCEPT
                  !.Model = st.model,
                  !.Focal = focal,
                  !.RealFocal = SplineTerm([k \in 0..3 |-> pts[k].RealFocal], sp, NoScale, t),
                  !.Terms = [i \in 0..4 |->
                      SplineTerm([k \in 0..3 |-> pts[k].Terms[i]], sp,
                                 SplineValues(recs, sp, focal, "LF_MODIFY_DISTORTION", st.model, i),
                                 t)]]]

InterpolateTCA(list, focal, out) ==
    IF ~list.alloc THEN [ret |-> FALSE, res |-> out, used |-> {}]
    ELSE
    LET recs == Records(list)
        st   == ScanModel(recs, 1, focal, "LF_TCA_MODEL_NONE",
                          ScanStart("LF_TCA_MODEL_NONE"))
        sp   == st.sp
        t    == SplineT(recs, sp, focal)
        pts  == SplineRecords(recs, sp)
    IN  IF st.match # 0
        THEN [ret |-> TRUE, res |-> recs[st.match], used |-> UsedSlots(st)]
        ELSE IF sp.spline[1] = 0 \/ sp.spline[2] = 0
        THEN IF sp.spline[1] # 0
             THEN [ret |-> TRUE, res |-> recs[sp.spline[1]], used |-> UsedSlots(st)]
             ELSE IF sp.spline[2] # 0
             THEN [ret |-> TRUE, res |-> recs[sp.spline[2]], used |-> UsedSlots(st)]
             ELSE [ret |-> FALSE, res |-> out, used |-> {}]
        ELSE [ret  |-> TRUE,
              used |-> UsedSlots(st),
              res  |-> [out EXCEPT
                  !.Model = st.model,
                  !.Focal = focal,
                  !.Terms = [i \in 0..11 |->
                      SplineTerm([k \in 0..3 |-> pts[k].Terms[i]], sp,
                                 SplineValues(recs, sp, focal, "LF_MODIFY_TCA", st.model, i),
                                 t)]]]

InterpolateCrop(list, focal, out) ==
    IF ~list.alloc THEN [ret |-> FALSE, res |-> out, used |-> {}]
    ELSE
    LET recs == Records(list)
        st   == ScanModel(recs, 1, focal, "LF_NO_CROP", ScanStart("LF_NO_CROP"))
        sp   == st.sp
        t    == SplineT(recs, sp, focal)
        pts  == SplineRecords(recs, sp)
    IN  IF st.match # 0
        THEN [ret |-> TRUE, res |-> recs[st.match], used |-> UsedSlots(st)]
        ELSE IF sp.spline[1] = 0 \/ sp.spline[2] = 0
        THEN IF sp.spline[1] # 0
             THEN [ret |-> TRUE, res |-> recs[sp.spline[1]], used |-> UsedSlots(st)]
             ELSE IF sp.spline[2] # 0
             THEN [ret |-> TRUE, res |-> recs[sp.spline[2]], used |-> UsedSlots(st)]
             ELSE [ret |-> FALSE, res |-> out, used |-> {}]
        ELSE [ret  |-> TRUE,
              used |-> UsedSlots(st),
              res  |-> [out EXCEPT
                  !.CropMode = st.model,
                  !.Focal = focal,
                  !.Crop = [i \in 0..3 |->
                      SplineTerm([k \in 0..3 |-> pts[k].Crop[i]], sp, NoScale, t)]]]

(* The loop leaves at an exact match (break) without returning the record. *)
RECURSIVE ScanFovBreak(_, _, _, _)
ScanFovBreak(recs, i, focal, st) ==
    IF i > Len(recs) THEN st
    ELSE LET c == recs[i] IN
         IF c.FieldOfView = R(0)
         THEN ScanFovBreak(recs, i + 1, focal, st)
         ELSE LET st1 == [st EXCEPT !.counter = st.counter + 1]
                  df  == focal - c.Focal
              IN  IF df = 0
                  THEN st1
                  ELSE ScanFovBreak(recs, i + 1, focal,
                                    [st1 EXCEPT !.sp = __insert_spline(st1.sp, df, i)])

(* The scan loop of InterpolateFov, from position i on. *)
RECURSIVE ScanFov(_, _, _, _)
ScanFov(recs, i, focal, st) ==
    IF i > Len(recs) THEN st
    ELSE LET c == recs[i] IN
         IF c.FieldOfView = R(0)
         THEN ScanFov(recs, i + 1, focal, st)
         ELSE LET st1 == [st EXCEPT !.counter = st.counter + 1]
                  df  == focal - c.Focal
              IN  IF df = 0
                  THEN [st1 EXCEPT !.match = i]
                  ELSE ScanFov(recs, i + 1, focal,
                               [st1 EXCEPT !.sp = __insert_spline(st1.sp, df, i)])

InterpolateFov(list, focal, out) ==
    IF ~list.alloc THEN [ret |-> FALSE, res |-> out, used |-> {}]
    ELSE
    LET recs == Records(list)
        st   == ScanFov(recs, 1, focal, ScanStart("none"))
        sp   == st.sp
        t    == SplineT(recs, sp, focal)
        pts  == SplineRecords(recs, sp)
    IN  IF st.match # 0
        THEN [ret |-> TRUE, res |-> recs[st.match], used |-> UsedSlots(st)]
        ELSE IF st.counter = 0
        THEN [ret |-> FALSE, res |-> out, used |-> {}]
        ELSE IF sp.spline[1] = 0 \/ sp.spline[2] = 0
        THEN IF sp.spline[1] # 0
             THEN [ret |-> TRUE, res |-> recs[sp.spline[1]], used |-> UsedSlots(st)]
             ELSE IF sp.spline[2] # 0
             THEN [ret |-> TRUE, res |-> recs[sp.spline[2]], used |-> UsedSlots(st)]
             ELSE [ret |-> FALSE, res |-> out, used |-> {}]
        ELSE [ret  |-> TRUE,
              used |-> UsedSlots(st),
              res  |-> [out EXCEPT
                  !.Focal = focal,
                  !.FieldOfView = SplineTerm([k \in 0..3 |-> pts[k].FieldOfView], sp, NoScale, t)]]

(***************************************************************************)
(* Inverse distance weighting of the vignetting samples (lens.cpp).        *)
(* __vignetting_dist yields the square of the distance, sqrt being         *)
(* monotonic the tests D < 0.0001 and D > 1 are made on the squares.       *)
(***************************************************************************)
(* With MaxFocal == MinFocal both focal coordinates are 0. *)
__vignetting_dist_flat(minFocal, maxFocal, x, focal, aperture, distance) ==
    LET df == maxFocal - minFocal
        f1 == IF df # 0 THEN Rat(focal - minFocal, df) ELSE R(0)
        f2 == IF df # 0 THEN Rat(x.Focal - minFocal, df) ELSE R(0)
        a1 == Rat(4, aperture)
        a2 == Rat(4, x.Aperture)
        d1 == Rat(1, 10 * distance)
        d2 == Rat(1, 10 * x.Distance)
    IN  RAdd(RAdd(square(RSub(f2, f1)), square(RSub(a2, a1))), square(RSub(d2, d1)))

__vignetting_dist(minFocal, maxFocal, x, focal, aperture, distance) ==
    LET df == maxFocal - minFocal
        f1 == IF df # 0 THEN Rat(focal - minFocal, df) ELSE R(focal - minFocal)
        f2 == IF df # 0 THEN Rat(x.Focal - minFocal, df) ELSE R(x.Focal - minFocal)
        a1 == Rat(4, aperture)
        a2 == Rat(4, x.Aperture)
        d1 == Rat(1, 10 * distance)
        d2 == Rat(1, 10 * x.Distance)
    IN  RAdd(RAdd(square(RSub(f2, f1)), square(RSub(a2, a1))), square(RSub(d2, d1)))

(* interpolation_distance < 0.0001, on the squares: n / d < 1 / 10^8. *)
DistBelowExact(dd) == dd[1] <= (dd[2] - 1) \div 100000000

(* The test takes a smallest distance of exactly 1 for too far. *)
DistAtLeastOne(dd) == dd[1] >= dd[2]

(* smallest_interpolation_distance > 1, on the squares. *)
DistAboveOne(dd) == dd[1] > dd[2]

(* std::min on the squares. *)
DistMin(a, b) ==
    LET l == (a[2] \div GCD(a[2], b[2])) * b[2]
    IN  IF b[1] * (l \div b[2]) < a[1] * (l \div a[2]) THEN b ELSE a

(* The loop without the test D < 0.0001: every sample is weighted. *)
RECURSIVE ScanVignettingNoExact(_, _, _, _, _, _, _)
ScanVignettingNoExact(recs, i, minFocal, maxFocal, q, none, st) ==
    IF i > Len(recs) THEN st
    ELSE LET c == recs[i] IN
         IF st.vm # none /\ st.vm # c.Model
         THEN ScanVignettingNoExact(recs, i + 1, minFocal, maxFocal, q, none, st)
         ELSE LET st1 == IF st.vm = none THEN [st EXCEPT !.vm = c.Model, !.assigned = TRUE] ELSE st
                  dd  == __vignetting_dist(minFocal, maxFocal, c, q[1], q[2], q[3])
              IN  ScanVignettingNoExact(recs, i + 1, minFocal, maxFocal, q, none,
                      [st1 EXCEPT !.smallest = IF st1.contrib = <<>> THEN dd
                                               ELSE DistMin(st1.smallest, dd),
                                  !.contrib = Append(st1.contrib, <<i, dd, st1.vm>>)])

(* The scan loop of InterpolateVignetting from position i on.  contrib    *)
(* lists the samples that were weighted: <<position, squared distance,    *)
(* vm at that time>>.                                                     *)
RECURSIVE ScanVignetting(_, _, _, _, _, _, _)
ScanVignetting(recs, i, minFocal, maxFocal, q, none, st) ==
    IF i > Len(recs) THEN st
    ELSE LET c == recs[i] IN
         IF st.vm # none /\ st.vm # c.Model
         THEN ScanVignetting(recs, i + 1, minFocal, maxFocal, q, none, st)
         ELSE LET st1 == IF st.vm = none THEN [st EXCEPT !.vm = c.Model, !.assigned = TRUE] ELSE st
                  dd  == __vignetting_dist(minFocal, maxFocal, c, q[1], q[2], q[3])
              IN  IF DistBelowExact(dd)
                  THEN [st1 EXCEPT !.match = i]
                  ELSE ScanVignetting(recs, i + 1, minFocal, maxFocal, q, none,
                           [st1 EXCEPT !.smallest = IF st1.contrib = <<>> THEN dd
                                                    ELSE DistMin(st1.smallest, dd),
                                       !.contrib = Append(st1.contrib, <<i, dd, st1.vm>>)])

(* Sum over the weighted samples of weight * term * scale, the weight     *)
(* |1 / D^3.5| being kept as the squared distance it is computed from and *)
(* the scale being that of the model vm had when the sample was weighted. *)
WeightedSum(recs, contrib, i) ==
    [k \in 1..Len(contrib) |->
        <<contrib[k][2],
          RMul(recs[contrib[k][1]].Terms[i],
               __parameter_scales(R(recs[contrib[k][1]].Focal), "LF_MODIFY_VIGNETTING",
                                  contrib[k][3], i))>>]

InterpolateVignetting(list, minFocal, maxFocal, focal, aperture, distance, out) ==
    IF ~list.alloc THEN [ret |-> FALSE, res |-> out, used |-> {}]
    ELSE
    LET recs == Records(list)
        none == "LF_VIGNETTING_MODEL_NONE"
        st   == ScanVignetting(recs, 1, minFocal, maxFocal, <<focal, aperture, distance>>, none,
                    [vm |-> none, assigned |-> FALSE, match |-> 0,
                     contrib |-> <<>>, smallest |-> R(FLT_MAX)])
        res1 == [out EXCEPT !.Focal = focal, !.Aperture = aperture, !.Distance = distance,
                            !.Model = IF st.assigned THEN st.vm ELSE out.Model]
        sums == [i \in 0..2 |->
                    IF st.contrib = <<>> THEN R(0)
                    ELSE <<"sum", WeightedSum(recs, st.contrib, i), R(1)>>]
        used == {st.contrib[k][1] : k \in 1..Len(st.contrib)}
    IN  IF st.match # 0
        THEN [ret |-> TRUE, res |-> recs[st.match], used |-> {st.match}]
        ELSE IF st.contrib = <<>> \/ DistAboveOne(st.smallest)
        THEN [ret |-> FALSE, res |-> [res1 EXCEPT !.Terms = sums], used |-> used]
        ELSE [ret  |-> TRUE,
              used |-> used,
              res  |-> [res1 EXCEPT !.Terms = [i \in 0..2 |->
                  <<"idw", WeightedSum(recs, st.contrib, i),
                    __parameter_scales(R(focal), "LF_MODIFY_VIGNETTING", st.vm, i)>>]]]

(***************************************************************************)
(* lfLens::GuessParameters (lens.cpp).                                     *)
(* The model name is one of a few sample names; the regular expressions    *)
(* are modelled by what they yield on these names.                         *)
(***************************************************************************)
INT_MAX == 2147483647

INT_MIN == -INT_MAX - 1

NoModel == "(null)"

ModelNames == {"Rolleinar", "2-5mm f/2", "4mm f/2", "2x extender 2-5mm f/2"}

(* strstr (Model, "adapter" | "reducer" | "booster" | "extender" | "converter") *)
HasConverterWord(model) == model = "2x extender 2-5mm f/2"

(* regexec (extender_magnification_regex "[0-9](\.[0.9]+)?x") finds a match *)
ExtenderMagnification(model) == model = "2x extender 2-5mm f/2"

(* The index of the first lens_name_regex that matches the name, 3 when *)
(* none does.                                                           *)
FirstMatch(model) ==
    IF model \in {"2-5mm f/2", "2x extender 2-5mm f/2", "4mm f/2"} THEN 0 ELSE 3

(* The loop of _lf_parse_lens_name over lens_name_regex from i on: a      *)
(* regex that is not compiled is compiled, then regexec runs on it; the   *)
(* loop returns at the first match.  rx is [compiled, uncompiled_use].    *)
RECURSIVE lens_name_loop(_, _, _)
lens_name_loop(model, i, rx) ==
    IF i > 2 THEN rx
    ELSE LET compiled == [rx.compiled EXCEPT ![i] = TRUE]
             rx1      == [compiled |-> compiled,
                          uncompiled_use |-> rx.uncompiled_use \/ ~compiled[i]]
         IN  IF FirstMatch(model) = i THEN rx1 ELSE lens_name_loop(model, i + 1, rx1)

(* _lf_free_lens_regex: regfree on every compiled regex. *)
_lf_free_lens_regex(compiled) == [i \in 0..2 |-> IF compiled[i] THEN FALSE ELSE compiled[i]]

(* The test of GuessParameters under which _lf_parse_lens_name is called. *)
ParsesName(l, model) ==
    /\ model # NoModel
    /\ (l.MinAperture = 0 \/ l.MinFocal = 0)
    /\ ~HasConverterWord(model)
    /\ ~ExtenderMagnification(model)

(* The regular expressions after GuessParameters on the fields l. *)
GuessRegex(l, model) ==
    LET rx == [compiled |-> lens_name_regex, uncompiled_use |-> uncompiled_use]
    IN  IF ParsesName(l, model) THEN lens_name_loop(model, 0, rx) ELSE rx

(* The first of the three lens_name_regex matches "[min focal]-[max focal]mm *)
(* f/[min aperture]"; a group that did not take part leaves its output       *)
(* untouched.                                                                *)
_lf_parse_lens_name(model, g) ==
    IF model = NoModel THEN g
    ELSE IF model \in {"2-5mm f/2", "2x extender 2-5mm f/2"}
    THEN [g EXCEPT !.minf = 2, !.maxf = 5, !.mina = 2]
    ELSE IF model = "4mm f/2"
    THEN [g EXCEPT !.minf = 4, !.mina = 2]
    ELSE g

(* The loops over a calibration list: the range of the focal lengths and, *)
(* for vignetting, of the apertures.                                       *)
RECURSIVE GuessFocals(_, _, _)
GuessFocals(recs, i, g) ==
    IF i > Len(recs) THEN g
    ELSE LET f  == recs[i].Focal
             g1 == IF f < g.minf THEN [g EXCEPT !.minf = f] ELSE g
             g2 == IF f > g1.maxf THEN [g1 EXCEPT !.maxf = f] ELSE g1
         IN  GuessFocals(recs, i + 1, g2)

RECURSIVE GuessApertures(_, _, _)
GuessApertures(recs, i, g) ==
    IF i > Len(recs) THEN g
    ELSE LET a  == recs[i].Aperture
             g1 == IF a < g.mina THEN [g EXCEPT !.mina = a] ELSE g
             g2 == IF a > g1.maxa THEN [g1 EXCEPT !.maxa = a] ELSE g1
         IN  GuessApertures(recs, i + 1, g2)

(* Every value that was guessed is stored, over the one the field holds. *)
GuessFillOver(l, g) ==
    LET l1 == IF g.minf # INT_MAX THEN [l EXCEPT !.MinFocal = g.minf] ELSE l
        l2 == IF g.maxf # INT_MIN THEN [l1 EXCEPT !.MaxFocal = g.maxf] ELSE l1
        l3 == IF g.mina # INT_MAX THEN [l2 EXCEPT !.MinAperture = g.mina] ELSE l2
        l4 == IF g.maxa # INT_MIN THEN [l3 EXCEPT !.MaxAperture = g.maxa] ELSE l3
    IN  IF l4.MaxFocal = 0 THEN [l4 EXCEPT !.MaxFocal = l4.MinFocal] ELSE l4

(* MaxFocal falls back to MinFocal before the guessed values are stored. *)
GuessFillMaxFirst(l, g) ==
    LET l0 == IF l.MaxFocal = 0 THEN [l EXCEPT !.MaxFocal = l.MinFocal] ELSE l
        l1 == IF g.minf # INT_MAX /\ l0.MinFocal = 0 THEN [l0 EXCEPT !.MinFocal = g.minf] ELSE l0
        l2 == IF g.maxf # INT_MIN /\ l1.MaxFocal = 0 THEN [l1 EXCEPT !.MaxFocal = g.maxf] ELSE l1
        l3 == IF g.mina # INT_MAX /\ l2.MinAperture = 0 THEN [l2 EXCEPT !.MinAperture = g.mina] ELSE l2
    IN  IF g.maxa # INT_MIN /\ l3.MaxAperture = 0 THEN [l3 EXCEPT !.MaxAperture = g.maxa] ELSE l3

(* The last statements of GuessParameters: fill the fields that are 0. *)
GuessFill(l, g) ==
    LET l1 == IF g.minf # INT_MAX /\ l.MinFocal = 0 THEN [l EXCEPT !.MinFocal = g.minf] ELSE l
        l2 == IF g.maxf # INT_MIN /\ l1.MaxFocal = 0 THEN [l1 EXCEPT !.MaxFocal = g.maxf] ELSE l1
        l3 == IF g.mina # INT_MAX /\ l2.MinAperture = 0 THEN [l2 EXCEPT !.MinAperture = g.mina] ELSE l2
        l4 == IF g.maxa # INT_MIN /\ l3.MaxAperture = 0 THEN [l3 EXCEPT !.MaxAperture = g.maxa] ELSE l3
    IN  IF l4.MaxFocal = 0 THEN [l4 EXCEPT !.MaxFocal = l4.MinFocal] ELSE l4

(* l holds the four fields, model the name and cd .. cf the five lists. *)
GuessParameters(l, model, cd, ctca, cv, cc, cf) ==
    LET g0 == [minf |-> INT_MAX, maxf |-> INT_MIN, mina |-> INT_MAX, maxa |-> INT_MIN]
        g1 == IF ParsesName(l, model)
              THEN _lf_parse_lens_name(model, g0)
              ELSE g0
        g2 == IF l.MinAperture = 0 \/ l.MinFocal = 0
              THEN GuessFocals(Records(cf), 1,
                     GuessFocals(Records(cc), 1,
                       GuessApertures(Records(cv), 1,
                         GuessFocals(Records(cv), 1,
                           GuessFocals(Records(ctca), 1,
                             GuessFocals(Records(cd), 1, g1))))))
              ELSE g1
    IN  GuessFill(l, g2)

(***************************************************************************)
(* The lens object and the calls on it.                                    *)
(***************************************************************************)
Geometry == <<CenterX, CenterY, CropFactor, AspectRatio, Type>>

modifier == <<SubpixelCallbacks, ColorCallbacks, CoordCallbacks>>

statics == <<_lf_lens_regex_refs, lens_name_regex, live, uncompiled_use>>

lens == <<CalibDistortion, CalibTCA, CalibVignetting, CalibCrop, CalibFov,
          MinFocal, MaxFocal, MinAperture, MaxAperture, Model,
          Maker, Mounts, Geometry>>

call == <<op, arg, pre, ret, res0, res>>

vars == <<lens, modifier, statics, call>>

Lists == <<CalibDistortion, CalibTCA, CalibVignetting, CalibCrop, CalibFov>>

Nil == <<>>

(* A NULL lfMLstr; an allocated one holds the bytes of its buffer. *)
NullStr == [alloc |-> FALSE, bytes |-> <<>>]

(* lfModifier: the three chains start empty. *)
lfModifier ==
    /\ SubpixelCallbacks = <<>>
    /\ ColorCallbacks = <<>>
    /\ CoordCallbacks = <<>>

(* The statics once the first lfLens is constructed: _lf_lens_regex_refs++ *)
(* made the counter 1 and no regular expression is compiled yet.           *)
lfLensStatics ==
    /\ _lf_lens_regex_refs = 1
    /\ lens_name_regex = [i \in 0..2 |-> FALSE]
    /\ live = 1
    /\ uncompiled_use = FALSE

(* lfLens::lfLens (): memset to 0, Type = LF_UNKNOWN. *)
lfLens ==
    /\ Maker = NullStr
    /\ Mounts = NullList
    /\ CenterX = R(0)
    /\ CenterY = R(0)
    /\ CropFactor = R(0)
    /\ AspectRatio = R(0)
    /\ Type = "LF_UNKNOWN"
    /\ CalibDistortion = NullList
    /\ CalibTCA = NullList
    /\ CalibVignetting = NullList
    /\ CalibCrop = NullList
    /\ CalibFov = NullList
    /\ MinFocal = 0
    /\ MaxFocal = 0
    /\ MinAperture = 0
    /\ MaxAperture = 0
    /\ Model = NoModel

Init ==
    /\ lfLens
    /\ lfModifier
    /\ lfLensStatics
    /\ op = "lfLens"
    /\ arg = Nil
    /\ pre = Nil
    /\ ret = TRUE
    /\ res0 = Nil
    /\ res = Nil

(* The call record of an operation without output record. *)
Called(name, a, p, r) ==
    /\ op' = name
    /\ arg' = a
    /\ pre' = p
    /\ ret' = r
    /\ res0' = Nil
    /\ res' = Nil

(* A list grows to MaxLen records at most. *)
Fits(newvar) == Len(Records(newvar)) <= MaxLen

(* The five lists are separate fields and no operation on one of them reads *)
(* another: a behaviour exercises the lists of one kind, the others stay    *)
(* as the constructor left them.                                            *)
Others(vs) == \A i \in 1..Len(vs) : vs[i] = NullList

AddCalibDistortion(dc) ==
    LET new == _lf_addobj(CalibDistortion, dc, "cmp_distortion")
    IN  /\ Others(<<CalibTCA, CalibVignetting, CalibCrop, CalibFov>>)
        /\ Fits(new)
        /\ CalibDistortion' = new
        /\ Called("AddCalibDistortion", dc, CalibDistortion, TRUE)
        /\ UNCHANGED <<CalibTCA, CalibVignetting, CalibCrop, CalibFov,
                       MinFocal, MaxFocal, MinAperture, MaxAperture, Model, Maker, Mounts, Geometry, modifier, statics>>

RemoveCalibDistortion(idx) ==
    LET r == _lf_delobj(CalibDistortion, idx)
    IN  /\ Others(<<CalibTCA, CalibVignetting, CalibCrop, CalibFov>>)
        /\ CalibDistortion' = r.var
        /\ Called("RemoveCalibDistortion", idx, CalibDistortion, r.ret)
        /\ UNCHANGED <<CalibTCA, CalibVignetting, CalibCrop, CalibFov,
                       MinFocal, MaxFocal, MinAperture, MaxAperture, Model, Maker, Mounts, Geometry, modifier, statics>>

AddCalibTCA(tcac) ==
    LET new == _lf_addobj(CalibTCA, tcac, "cmp_tca")
    IN  /\ Others(<<CalibDistortion, CalibVignetting, CalibCrop, CalibFov>>)
        /\ Fits(new)
        /\ CalibTCA' = new
        /\ Called("AddCalibTCA", tcac, CalibTCA, TRUE)
        /\ UNCHANGED <<CalibDistortion, CalibVignetting, CalibCrop, CalibFov,
                       MinFocal, MaxFocal, MinAperture, MaxAperture, Model, Maker, Mounts, Geometry, modifier, statics>>

RemoveCalibTCA(idx) ==
    LET r == _lf_delobj(CalibTCA, idx)
    IN  /\ Others(<<CalibDistortion, CalibVignetting, CalibCrop, CalibFov>>)
        /\ CalibTCA' = r.var
        /\ Called("RemoveCalibTCA", idx, CalibTCA, r.ret)
        /\ UNCHANGED <<CalibDistortion, CalibVignetting, CalibCrop, CalibFov,
                       MinFocal, MaxFocal, MinAperture, MaxAperture, Model, Maker, Mounts, Geometry, modifier, statics>>

AddCalibVignetting(vc) ==
    LET new == _lf_addobj(CalibVignetting, vc, "cmp_vignetting")
    IN  /\ Others(<<CalibDistortion, CalibTCA, CalibCrop, CalibFov>>)
        /\ Fits(new)
        /\ CalibVignetting' = new
        /\ Called("AddCalibVignetting", vc, CalibVignetting, TRUE)
        /\ UNCHANGED <<CalibDistortion, CalibTCA, CalibCrop, CalibFov,
                       MinFocal, MaxFocal, MinAperture, MaxAperture, Model, Maker, Mounts, Geometry, modifier, statics>>

RemoveCalibVignetting(idx) ==
    LET r == _lf_delobj(CalibVignetting, idx)
    IN  /\ Others(<<CalibDistortion, CalibTCA, CalibCrop, CalibFov>>)
        /\ CalibVignetting' = r.var
        /\ Called("RemoveCalibVignetting", idx, CalibVignetting, r.ret)
        /\ UNCHANGED <<CalibDistortion, CalibTCA, CalibCrop, CalibFov,
                       MinFocal, MaxFocal, MinAperture, MaxAperture, Model, Maker, Mounts, Geometry, modifier, statics>>

AddCalibCrop(lcc) ==
    LET new == _lf_addobj(CalibCrop, lcc, "cmp_lenscrop")
    IN  /\ Others(<<CalibDistortion, CalibTCA, CalibVignetting, CalibFov>>)
        /\ Fits(new)
        /\ CalibCrop' = new
        /\ Called("AddCalibCrop", lcc, CalibCrop, TRUE)
        /\ UNCHANGED <<CalibDistortion, CalibTCA, CalibVignetting, CalibFov,
                       MinFocal, MaxFocal, MinAperture, MaxAperture, Model, Maker, Mounts, Geometry, modifier, statics>>

RemoveCalibCrop(idx) ==
    LET r == _lf_delobj(CalibCrop, idx)
    IN  /\ Others(<<CalibDistortion, CalibTCA, CalibVignetting, CalibFov>>)
        /\ CalibCrop' = r.var
        /\ Called("RemoveCalibCrop", idx, CalibCrop, r.ret)
        /\ UNCHANGED <<CalibDistortion, CalibTCA, CalibVignetting, CalibFov,
                       MinFocal, MaxFocal, MinAperture, MaxAperture, Model, Maker, Mounts, Geometry, modifier, statics>>

AddCalibFov(lcf) ==
    LET new == _lf_addobj(CalibFov, lcf, "cmp_lensfov")
    IN  /\ Others(<<CalibDistortion, CalibTCA, CalibVignetting, CalibCrop>>)
        /\ Fits(new)
        /\ CalibFov' = new
        /\ Called("AddCalibFov", lcf, CalibFov, TRUE)
        /\ UNCHANGED <<CalibDistortion, CalibTCA, CalibVignetting, CalibCrop,
                       MinFocal, MaxFocal, MinAperture, MaxAperture, Model, Maker, Mounts, Geometry, modifier, statics>>

RemoveCalibFov(idx) ==
    LET r == _lf_delobj(CalibFov, idx)
    IN  /\ Others(<<CalibDistortion, CalibTCA, CalibVignetting, CalibCrop>>)
        /\ CalibFov' = r.var
        /\ Called("RemoveCalibFov", idx, CalibFov, r.ret)
        /\ UNCHANGED <<CalibDistortion, CalibTCA, CalibVignetting, CalibCrop,
                       MinFocal, MaxFocal, MinAperture, MaxAperture, Model, Maker, Mounts, Geometry, modifier, statics>>

(* An Interpolate* call: the lens is const, the output record is the caller's. *)
Interpolated(name, a, p, out, r) ==
    /\ op' = name
    /\ arg' = a
    /\ pre' = p
    /\ ret' = r.ret
    /\ res0' = out
    /\ res' = r.res
    /\ UNCHANGED <<lens, modifier, statics>>

CallInterpolateDistortion(focal, out) ==
    /\ Others(<<CalibTCA, CalibVignetting, CalibCrop, CalibFov>>)
    /\ Interpolated("InterpolateDistortion", focal, CalibDistortion, out,
                    InterpolateDistortion(CalibDistortion, focal, out))

CallInterpolateTCA(focal, out) ==
    /\ Others(<<CalibDistortion, CalibVignetting, CalibCrop, CalibFov>>)
    /\ Interpolated("InterpolateTCA", focal, CalibTCA, out,
                    InterpolateTCA(CalibTCA, focal, out))

CallInterpolateVignetting(q, out) ==
    /\ Others(<<CalibDistortion, CalibTCA, CalibCrop, CalibFov>>)
    /\ Interpolated("InterpolateVignetting", q, CalibVignetting, out,
                    InterpolateVignetting(CalibVignetting, MinFocal, MaxFocal, q[1], q[2], q[3], out))

CallInterpolateCrop(focal, out) ==
    /\ Others(<<CalibDistortion, CalibTCA, CalibVignetting, CalibFov>>)
    /\ Interpolated("InterpolateCrop", focal, CalibCrop, out,
                    InterpolateCrop(CalibCrop, focal, out))

CallInterpolateFov(focal, out) ==
    /\ Others(<<CalibDistortion, CalibTCA, CalibVignetting, CalibCrop>>)
    /\ Interpolated("InterpolateFov", focal, CalibFov, out,
                    InterpolateFov(CalibFov, focal, out))

(* The database entry of the lens gives its focal range (public fields). *)
SetFocalRange(r) ==
    /\ <<MinFocal, MaxFocal>> # r
    /\ MinFocal' = r[1]
    /\ MaxFocal' = r[2]
    /\ Called("SetFocalRange", r, <<MinFocal, MaxFocal>>, TRUE)
    /\ UNCHANGED <<Lists, MinAperture, MaxAperture, Model, Maker, Mounts, Geometry, modifier, statics>>

AddOps == {"AddCalibDistortion", "AddCalibTCA", "AddCalibVignetting", "AddCalibCrop", "AddCalibFov"}

RemoveOps == {"RemoveCalibDistortion", "RemoveCalibTCA", "RemoveCalibVignetting",
              "RemoveCalibCrop", "RemoveCalibFov"}

InterpolateOps == {"InterpolateDistortion", "InterpolateTCA", "InterpolateVignetting",
                   "InterpolateCrop", "InterpolateFov"}

(* The five lists as their sequences of records. *)
AllRecords == [k \in 1..5 |-> Records(Lists[k])]

(* "The object is copied, thus you can reuse it as soon as this function   *)
(* returns": the caller overwrites the record it passed to AddCalib*.      *)
ReuseRecord(r) ==
    /\ op \in AddOps
    /\ DOMAIN r = DOMAIN arg
    /\ op' = "ReuseRecord"
    /\ arg' = r
    /\ pre' = AllRecords
    /\ ret' = TRUE
    /\ res0' = Nil
    /\ res' = Nil
    /\ UNCHANGED <<lens, modifier, statics>>

(* The indexes the callers pass to RemoveCalib*. *)
RemoveIndexes == -1..MaxLen

Next ==
    \/ \E dc \in DistortionInputs : AddCalibDistortion(dc)
    \/ \E idx \in RemoveIndexes : RemoveCalibDistortion(idx)
    \/ \E tcac \in TCAInputs : AddCalibTCA(tcac)
    \/ \E idx \in RemoveIndexes : RemoveCalibTCA(idx)
    \/ \E vc \in VignettingInputs : AddCalibVignetting(vc)
    \/ \E idx \in RemoveIndexes : RemoveCalibVignetting(idx)
    \/ \E lcc \in CropInputs : AddCalibCrop(lcc)
    \/ \E idx \in RemoveIndexes : RemoveCalibCrop(idx)
    \/ \E lcf \in FovInputs : AddCalibFov(lcf)
    \/ \E idx \in RemoveIndexes : RemoveCalibFov(idx)
    \/ \E focal \in QueryFocals, out \in PriorDistortion : CallInterpolateDistortion(focal, out)
    \/ \E focal \in QueryFocals : CallInterpolateTCA(focal, PriorTCA)
    \/ \E q \in VignettingKeys : CallInterpolateVignetting(q, PriorVignetting)
    \/ \E focal \in QueryFocals : CallInterpolateCrop(focal, PriorCrop)
    \/ \E focal \in QueryFocals : CallInterpolateFov(focal, PriorFov)
    \/ \E r \in FocalRanges : SetFocalRange(r)
    \/ \E r \in PriorDistortion \cup {PriorTCA, PriorVignetting, PriorCrop, PriorFov} : ReuseRecord(r)

Spec == Init /\ [][Next]_vars

(***************************************************************************)
(* GuessParameters on lenses as a database loader fills them: any fields, *)
(* any sample name, calibration lists of several kinds at once.            *)
(***************************************************************************)
Fields == [MinFocal |-> MinFocal, MaxFocal |-> MaxFocal,
           MinAperture |-> MinAperture, MaxAperture |-> MaxAperture]

(* The list a loader builds by adding the records of recs in order. *)
ListOf1(r1, cmpf) == _lf_addobj(NullList, r1, cmpf)

ListOf2(r1, r2, cmpf) == _lf_addobj(ListOf1(r1, cmpf), r2, cmpf)

LoadedDistortion ==
    {NullList,
     ListOf1(lfLensCalibDistortion("LF_DIST_MODEL_POLY3", 3), "cmp_distortion"),
     ListOf2(lfLensCalibDistortion("LF_DIST_MODEL_POLY3", 5),
             lfLensCalibDistortion("LF_DIST_MODEL_POLY3", 1), "cmp_distortion")}

LoadedTCA ==
    {NullList, ListOf1(lfLensCalibTCA("LF_TCA_MODEL_LINEAR", 3), "cmp_tca")}

LoadedVignetting ==
    {NullList,
     ListOf1(lfLensCalibVignetting("LF_VIGNETTING_MODEL_PA", 2, 4, 1), "cmp_vignetting"),
     ListOf2(lfLensCalibVignetting("LF_VIGNETTING_MODEL_PA", 1, 2, 1),
             lfLensCalibVignetting("LF_VIGNETTING_MODEL_PA", 2, 4, 1), "cmp_vignetting")}

LoadedCrop ==
    {NullList, ListOf1(lfLensCalibCrop("LF_CROP_CIRCLE", 1), "cmp_lenscrop")}

LoadedFov ==
    {NullList, ListOf1(lfLensCalibFov(90, 5), "cmp_lensfov")}

InitGuess ==
    /\ CalibDistortion \in LoadedDistortion
    /\ CalibTCA \in LoadedTCA
    /\ CalibVignetting \in LoadedVignetting
    /\ CalibCrop \in LoadedCrop
    /\ CalibFov \in LoadedFov
    /\ MinFocal \in {0, 3}
    /\ MaxFocal \in {0, 4}
    /\ MinAperture \in {0, 3}
    /\ MaxAperture \in {0, 8}
    /\ Model \in ModelNames \cup {NoModel}
    /\ Maker = NullStr
    /\ Mounts = NullList
    /\ CenterX = R(0)
    /\ CenterY = R(0)
    /\ CropFactor = R(0)
    /\ AspectRatio = R(0)
    /\ Type = "LF_UNKNOWN"
    /\ lfModifier
    /\ lfLensStatics
    /\ op = "lfLens"
    /\ arg = Nil
    /\ pre = Nil
    /\ ret = TRUE
    /\ res0 = Nil
    /\ res = Nil

CallGuessParameters ==
    LET l == GuessParameters(Fields, Model, CalibDistortion, CalibTCA, CalibVignetting,
                             CalibCrop, CalibFov)
    IN  /\ MinFocal' = l.MinFocal
        /\ MaxFocal' = l.MaxFocal
        /\ MinAperture' = l.MinAperture
        /\ MaxAperture' = l.MaxAperture
        /\ Called("GuessParameters", op, Fields, TRUE)
        /\ lens_name_regex' = GuessRegex(Fields, Model).compiled
        /\ uncompiled_use' = GuessRegex(Fields, Model).uncompiled_use
        /\ UNCHANGED <<Lists, Model, Maker, Mounts, Geometry, modifier, _lf_lens_regex_refs, live>>

NextGuess == CallGuessParameters

SpecGuess == InitGuess /\ [][NextGuess]_vars

(***************************************************************************)
(* lfLens::Check (lens.cpp) on lenses as a database loader fills them.     *)
(***************************************************************************)
(* a < b and a <= b on floats; a comparison with NAN is false. *)
RLess(a, b) == a[2] # 0 /\ b[2] # 0 /\ a[1] * b[2] < b[1] * a[2]

RLeq(a, b) == a[2] # 0 /\ b[2] # 0 /\ a[1] * b[2] <= b[1] * a[2]

(* The test without the exemption of MaxAperture == 0. *)
CheckAnyAperture(l, model, mounts, cropFactor, aspectRatio) ==
    ~ \/ model = NoModel
      \/ ~mounts.alloc
      \/ RLeq(cropFactor, R(0))
      \/ l.MinFocal > l.MaxFocal
      \/ l.MinAperture > l.MaxAperture
      \/ RLess(aspectRatio, R(1))

(* The test of Check on the fields as GuessParameters left them: l holds *)
(* the four range fields.                                                 *)
Check(l, model, mounts, cropFactor, aspectRatio) ==
    ~ \/ model = NoModel
      \/ ~mounts.alloc
      \/ RLeq(cropFactor, R(0))
      \/ l.MinFocal > l.MaxFocal
      \/ (l.MaxAperture # 0 /\ l.MinAperture > l.MaxAperture)
      \/ RLess(aspectRatio, R(1))

(* lfLens::AddMount *)
AddMount(mounts, val) == _lf_addobj(mounts, val, "NULL")

InitCheck ==
    /\ CalibDistortion \in LoadedDistortion
    /\ CalibTCA = NullList
    /\ CalibVignetting \in LoadedVignetting
    /\ CalibCrop = NullList
    /\ CalibFov = NullList
    /\ MinFocal \in {0, 3, 6}
    /\ MaxFocal \in {0, 4}
    /\ MinAperture \in {0, 3, 9}
    /\ MaxAperture \in {0, 8}
    /\ Model \in {NoModel, "Rolleinar", "4mm f/2"}
    /\ Maker = NullStr
    /\ Mounts \in {NullList, AddMount(NullList, "M42")}
    /\ CenterX = R(0)
    /\ CenterY = R(0)
    /\ CropFactor \in {R(-1), R(0), Rat(1, 2), Rat(3, 2)}
    /\ AspectRatio \in {R(0), Rat(1, 2), R(1), Rat(3, 2)}
    /\ Type = "LF_UNKNOWN"
    /\ lfModifier
    /\ lfLensStatics
    /\ op = "lfLens"
    /\ arg = Nil
    /\ pre = Nil
    /\ ret = TRUE
    /\ res0 = Nil
    /\ res = Nil

CallCheck ==
    LET l == GuessParameters(Fields, Model, CalibDistortion, CalibTCA, CalibVignetting,
                             CalibCrop, CalibFov)
    IN  /\ MinFocal' = l.MinFocal
        /\ MaxFocal' = l.MaxFocal
        /\ MinAperture' = l.MinAperture
        /\ MaxAperture' = l.MaxAperture
        /\ Called("Check", op, Fields, Check(l, Model, Mounts, CropFactor, AspectRatio))
        /\ lens_name_regex' = GuessRegex(Fields, Model).compiled
        /\ uncompiled_use' = GuessRegex(Fields, Model).uncompiled_use
        /\ UNCHANGED <<Lists, Model, Maker, Mounts, Geometry, modifier, _lf_lens_regex_refs, live>>

NextCheck == CallCheck

SpecCheck == InitCheck /\ [][NextCheck]_vars

(***************************************************************************)
(* Distortion calibrations of the fifth-order polynomial model on a zoom   *)
(* lens: Terms [0] is k1, Terms [1] is k2.                                 *)
(***************************************************************************)
Poly5(f, k1) ==
    [Model |-> "LF_DIST_MODEL_POLY5", Focal |-> f, RealFocal |-> R(f),
     RealFocalMeasured |-> FALSE,
     Terms |-> [i \in 0..4 |-> IF i = 0 THEN k1 ELSE R(0)]]

Poly5Inputs == {Poly5(24, Rat(1, 20)), Poly5(70, Rat(-1, 50)), Poly5(100, Rat(1, 100))}

Poly5Focals == {24, 47, 85}

NextPoly5 ==
    \/ \E dc \in Poly5Inputs : AddCalibDistortion(dc)
    \/ \E idx \in RemoveIndexes : RemoveCalibDistortion(idx)
    \/ \E focal \in Poly5Focals, out \in PriorDistortion : CallInterpolateDistortion(focal, out)

SpecPoly5 == Init /\ [][NextPoly5]_vars

(***************************************************************************)
(* Multi-language strings (auxfun.cpp, lensfun.h).                         *)
(* An lfMLstr is NULL or a heap buffer; bytes holds the bytes of the       *)
(* allocation, so that Len (bytes) is the allocated size, and offsets are  *)
(* 0-based as in C.  A C string argument is the sequence of its non-zero   *)
(* bytes, <<0>> standing for the NULL pointer.  A call reports in oob      *)
(* whether it read or wrote a byte outside the allocation.                 *)
(***************************************************************************)
(* Bound on the size of a buffer a behaviour allocates. *)
MaxStr == 14

NULL == <<0>>

(* "en" and "fr" *)
Languages == {<<101, 110>>, <<102, 114>>}

(* "a", "bb" and "dddd" *)
Translations == {<<97>>, <<98, 98>>, <<100, 100, 100, 100>>}

(* The value of a byte no call has written yet. *)
Indeterminate == {0, 255}

(* strlen (str + p), -1 when the scan runs off the allocation. *)
RECURSIVE strlen(_, _)
strlen(bytes, p) ==
    IF p < 0 \/ p >= Len(bytes) THEN -1
    ELSE IF bytes[p + 1] = 0 THEN 0
    ELSE LET l == strlen(bytes, p + 1) IN IF l < 0 THEN -1 ELSE l + 1

(* The current language is "fr". *)
_lf_get_lang_fr == <<102, 114>>

(* _lf_get_lang *)
_lf_get_lang == <<101, 110>>

(* The loop of lf_mlstr_get; def and cur are offsets into the buffer. *)
RECURSIVE lf_mlstr_get_loop(_, _, _)
lf_mlstr_get_loop(bytes, def, cur) ==
    IF cur >= Len(bytes) THEN [ptr |-> def, oob |-> TRUE]
    ELSE IF bytes[cur + 1] = 0 THEN [ptr |-> def, oob |-> FALSE]
    ELSE LET l    == strlen(bytes, cur)
             next == cur + l + 1
         IN  IF l < 0 THEN [ptr |-> def, oob |-> TRUE]
             ELSE IF SubSeq(bytes, cur + 1, cur + l) = _lf_get_lang
             THEN [ptr |-> next, oob |-> FALSE]
             ELSE IF next >= Len(bytes) THEN [ptr |-> def, oob |-> TRUE]
             ELSE IF bytes[next + 1] = 0 THEN lf_mlstr_get_loop(bytes, def, next)
             ELSE IF strlen(bytes, next) < 0 THEN [ptr |-> def, oob |-> TRUE]
             ELSE lf_mlstr_get_loop(bytes, def, next + strlen(bytes, next) + 1)

(* The returned pointer as an offset into the buffer, -1 for NULL. *)
lf_mlstr_get(str) ==
    IF ~str.alloc THEN [ptr |-> -1, oob |-> FALSE]
    ELSE LET l == strlen(str.bytes, 0)
         IN  IF l < 0 THEN [ptr |-> 0, oob |-> TRUE]
             ELSE lf_mlstr_get_loop(str.bytes, 0, l + 1)

(* while (str [str_len]) str_len += 1 + strlen (str + str_len); *)
RECURSIVE add_str_len(_, _)
add_str_len(bytes, str_len) ==
    IF str_len >= Len(bytes) THEN -1
    ELSE IF bytes[str_len + 1] = 0 THEN str_len
    ELSE LET l == strlen(bytes, str_len)
         IN  IF l < 0 THEN -1 ELSE add_str_len(bytes, str_len + 1 + l)

(* memcpy of n bytes inside mem, byte k first and then every step-th: *)
(* from the first byte upwards or from the last byte downwards.       *)
RECURSIVE memcpy(_, _, _, _, _, _)
memcpy(mem, dst, src, n, k, step) ==
    IF k < 0 \/ k >= n THEN mem
    ELSE memcpy([mem EXCEPT ![dst + k + 1] = mem[src + k + 1]], dst, src, n, k + step, step)

(* realloc of an allocation of oldsize bytes; mem holds these and the    *)
(* bytes written behind them.  Grown in place the block keeps what lies  *)
(* behind it, moved it keeps the bytes of the old allocation only.       *)
realloc(mem, oldsize, size, inplace, g) ==
    [i \in 1..size |-> IF i <= oldsize \/ (inplace /\ i <= Len(mem)) THEN mem[i] ELSE g]

(* The outcomes of lf_mlstr_add: memcpy on overlapping blocks copies in  *)
(* either direction, realloc grows in place or moves.                    *)
lf_mlstr_add(str, lang, trstr) ==
    IF trstr = NULL THEN {[str |-> str, oob |-> FALSE]}
    ELSE
    LET trstr_len   == Len(trstr) + 1
        def_str_len == IF str.alloc THEN strlen(str.bytes, 0) + 1 ELSE 0
        str_len     == IF ~str.alloc THEN 0
                       ELSE IF def_str_len = 0 THEN -1
                       ELSE add_str_len(str.bytes, def_str_len)
        oldsize     == Len(str.bytes)
    IN  IF str_len < 0 THEN {[str |-> str, oob |-> TRUE]}
        ELSE IF lang = NULL
        THEN LET n    == str_len - def_str_len
                 size == n + trstr_len + 1
                 top  == IF n > 0 /\ trstr_len + n > oldsize THEN trstr_len + n ELSE oldsize
             IN  {[oob |-> top > oldsize,
                   str |-> [alloc |-> TRUE,
                            bytes |->
                              LET mem   == str.bytes \o [i \in 1..(top - oldsize) |-> g]
                                  moved == memcpy(mem, trstr_len, def_str_len, n,
                                                  IF up THEN 0 ELSE n - 1, IF up THEN 1 ELSE -1)
                                  new   == realloc(moved, oldsize, size, inplace, g)
                              IN  [i \in 1..size |->
                                      IF i <= Len(trstr) THEN trstr[i]
                                      ELSE IF i = trstr_len \/ i = size THEN 0
                                      ELSE new[i]]]]
                    : up \in BOOLEAN, inplace \in BOOLEAN, g \in Indeterminate}
        ELSE LET lang_len == Len(lang) + 1
             IN  {[oob |-> FALSE,
                   str |-> [alloc |-> TRUE,
                            bytes |-> SubSeq(str.bytes, 1, str_len)
                                        \o lang \o <<0>> \o trstr \o <<0, 0>>]]}

(* while (str [str_len]) str_len += 2 + strlen (str + str_len + 1); *)
RECURSIVE dup_str_len(_, _)
dup_str_len(bytes, str_len) ==
    IF str_len >= Len(bytes) THEN -1
    ELSE IF bytes[str_len + 1] = 0 THEN str_len
    ELSE LET l == strlen(bytes, str_len + 1)
         IN  IF l < 0 THEN -1 ELSE dup_str_len(bytes, str_len + 2 + l)

(* The outcomes of lf_mlstr_dup; malloc (0) returns NULL or a block of *)
(* no bytes.                                                           *)
lf_mlstr_dup(str) ==
    IF ~str.alloc
    THEN {[str |-> NullStr, oob |-> FALSE],
          [str |-> [alloc |-> TRUE, bytes |-> <<>>], oob |-> FALSE]}
    ELSE LET l       == strlen(str.bytes, 0)
             str_len == IF l < 0 THEN -1 ELSE dup_str_len(str.bytes, l + 1)
         IN  IF str_len < 0 THEN {[str |-> str, oob |-> TRUE]}
             ELSE {[str |-> [alloc |-> TRUE, bytes |-> SubSeq(str.bytes, 1, str_len + 1)],
                    oob |-> FALSE]}

(***************************************************************************)
(* Calls on the multi-language string Maker of the lens.  A call that left *)
(* the allocation ends the behaviour: nothing is known of the program then.*)
(***************************************************************************)
MLstrOps == {"SetMaker", "lf_mlstr_get", "lf_mlstr_dup"}

Trapped == op \in MLstrOps /\ ret.oob

(* lfLens::SetMaker *)
SetMaker(val, lang) ==
    /\ ~Trapped
    /\ \E out \in lf_mlstr_add(Maker, lang, val) :
           /\ Len(out.str.bytes) <= MaxStr
           /\ Maker' = out.str
           /\ Called("SetMaker", <<lang, val>>, Maker, out)
    /\ UNCHANGED <<Lists, MinFocal, MaxFocal, MinAperture, MaxAperture, Model, Mounts,
                   Geometry, modifier, statics>>

(* lf_mlstr_get (lens->Maker) *)
GetMaker ==
    /\ ~Trapped
    /\ Called("lf_mlstr_get", Nil, Maker, lf_mlstr_get(Maker))
    /\ UNCHANGED <<lens, modifier, statics>>

(* lf_mlstr_dup (lens->Maker) *)
DupMaker ==
    /\ ~Trapped
    /\ \E out \in lf_mlstr_dup(Maker) : Called("lf_mlstr_dup", Nil, Maker, out)
    /\ UNCHANGED <<lens, modifier, statics>>

NextMLstr ==
    \/ \E val \in Translations \cup {NULL}, lang \in Languages \cup {NULL} : SetMaker(val, lang)
    \/ GetMaker
    \/ DupMaker

SpecMLstr == Init /\ [][NextMLstr]_vars

(***************************************************************************)
(* lf_lens_copy: lfLens::operator = (lens.cpp).  The lens of the state is  *)
(* the destination; the source is another lens object or the destination   *)
(* itself.                                                                 *)
(***************************************************************************)
(* The object as a record of its fields. *)
This ==
    [Maker |-> Maker, Model |-> Model,
     MinFocal |-> MinFocal, MaxFocal |-> MaxFocal,
     MinAperture |-> MinAperture, MaxAperture |-> MaxAperture,
     Mounts |-> Mounts,
     CenterX |-> CenterX, CenterY |-> CenterY, CropFactor |-> CropFactor,
     AspectRatio |-> AspectRatio, Type |-> Type,
     CalibDistortion |-> CalibDistortion, CalibTCA |-> CalibTCA,
     CalibVignetting |-> CalibVignetting, CalibCrop |-> CalibCrop, CalibFov |-> CalibFov]

(* Lenses as a database loader fills them. *)
SourceLenses ==
    {[Maker |-> mk, Model |-> md,
      MinFocal |-> f, MaxFocal |-> 2 * f, MinAperture |-> f, MaxAperture |-> 0,
      Mounts |-> m,
      CenterX |-> Rat(f, 20), CenterY |-> R(0), CropFactor |-> Rat(3, 2),
      AspectRatio |-> Rat(3, 2), Type |-> IF f = 0 THEN "LF_UNKNOWN" ELSE "LF_RECTILINEAR",
      CalibDistortion |-> d,
      CalibTCA |-> IF f = 0 THEN NullList
                   ELSE ListOf1(lfLensCalibTCA("LF_TCA_MODEL_LINEAR", 3), "cmp_tca"),
      CalibVignetting |-> IF f = 0 THEN NullList
                          ELSE ListOf2(lfLensCalibVignetting("LF_VIGNETTING_MODEL_PA", 1, 2, 1),
                                       lfLensCalibVignetting("LF_VIGNETTING_MODEL_PA", 2, 4, 1),
                                       "cmp_vignetting"),
      CalibCrop |-> IF f = 0 THEN ListOf1(lfLensCalibCrop("LF_CROP_CIRCLE", 1), "cmp_lenscrop")
                    ELSE NullList,
      CalibFov |-> IF f = 0 THEN ListOf1(lfLensCalibFov(90, 5), "cmp_lensfov") ELSE NullList] :
        mk \in {NullStr, [alloc |-> TRUE, bytes |-> <<97, 0, 101, 110, 0, 98, 98, 0, 0>>]},
        md \in {NoModel, "4mm f/2"},
        f \in {0, 3},
        m \in {NullList, AddMount(AddMount(AddMount(NullList, "Nikon F"), "M42"), "Nikon F")},
        d \in LoadedDistortion}

(* A name read through a pointer to freed memory, and one that points to *)
(* a block of no bytes.                                                  *)
Dangling == "(freed)"

NoBytes == "(malloc 0)"

(* for (i = 0; other.X [i]; i++) AddX (other.X [i]) from position i on. *)
RECURSIVE CopyList(_, _, _, _)
CopyList(var, recs, i, cmpf) ==
    IF i > Len(recs) THEN var
    ELSE CopyList(_lf_addobj(var, recs[i], cmpf), recs, i + 1, cmpf)

(* The list X after lf_free (X); X = NULL; if (other.X) for ...: when the *)
(* source is this object other.X is NULL by then.                         *)
AssignList(list, self, cmpf) ==
    IF self \/ ~list.alloc THEN NullList ELSE CopyList(NullList, Records(list), 1, cmpf)

(* The outcomes of *this = other.  ub tells whether freed memory or *)
(* memory outside an allocation was read.                           *)
operator_assign(other, self) ==
    UNION {
      {[ub |-> \/ o.oob
               \/ self /\ (other.Maker.alloc \/ other.Model # NoModel),
        lens |-> [other EXCEPT
            !.Maker = mk,
            !.Model = md,
            !.Mounts = AssignList(other.Mounts, self, "NULL"),
            !.CalibDistortion = AssignList(other.CalibDistortion, self, "cmp_distortion"),
            !.CalibTCA = AssignList(other.CalibTCA, self, "cmp_tca"),
            !.CalibVignetting = AssignList(other.CalibVignetting, self, "cmp_vignetting"),
            !.CalibCrop = AssignList(other.CalibCrop, self, "cmp_lenscrop"),
            !.CalibFov = AssignList(other.CalibFov, self, "cmp_lensfov")]] :
          mk \in {o.str} \cup (IF self /\ other.Maker.alloc
                               THEN {[alloc |-> TRUE, bytes |-> <<g, 0, 0>>] : g \in Indeterminate}
                               ELSE {}),
          md \in IF other.Model = NoModel THEN {NoModel, NoBytes}
                 ELSE IF self THEN {other.Model, Dangling}
                 ELSE {other.Model}} :
      o \in lf_mlstr_dup(other.Maker)}

(* lf_lens_copy (dest, source) *)
lf_lens_copy(source, self) ==
    /\ op = "lf_lens_copy" => ~ret
    /\ \E out \in operator_assign(source, self) :
          /\ Maker' = out.lens.Maker
          /\ Model' = out.lens.Model
          /\ MinFocal' = out.lens.MinFocal
          /\ MaxFocal' = out.lens.MaxFocal
          /\ MinAperture' = out.lens.MinAperture
          /\ MaxAperture' = out.lens.MaxAperture
          /\ Mounts' = out.lens.Mounts
          /\ CenterX' = out.lens.CenterX
          /\ CenterY' = out.lens.CenterY
          /\ CropFactor' = out.lens.CropFactor
          /\ AspectRatio' = out.lens.AspectRatio
          /\ Type' = out.lens.Type
          /\ CalibDistortion' = out.lens.CalibDistortion
          /\ CalibTCA' = out.lens.CalibTCA
          /\ CalibVignetting' = out.lens.CalibVignetting
          /\ CalibCrop' = out.lens.CalibCrop
          /\ CalibFov' = out.lens.CalibFov
          /\ op' = "lf_lens_copy"
          /\ arg' = source
          /\ pre' = self
          /\ ret' = out.ub
          /\ res0' = Nil
          /\ res' = Nil
    /\ UNCHANGED <<modifier, statics>>

NextCopy ==
    \/ \E source \in SourceLenses : lf_lens_copy(source, FALSE)
    \/ lf_lens_copy(This, TRUE)

SpecCopy == Init /\ [][NextCopy]_vars

(***************************************************************************)
(* The callback chains of lfModifier (lensfun.h).  The header declares     *)
(* the registration functions; their bodies are not part of the sources   *)
(* at hand, AddCallback follows the description of the chains: each chain  *)
(* stores (priority, function, data, data_size) and is kept sorted         *)
(* ascending, ties preserving insertion order.                             *)
(***************************************************************************)
(* Bound on the number of callbacks registered on one modifier. *)
MaxCallbacks == 4

(* Scale, vignetting and geometry stand for the priorities 0..999. *)
Priorities == {100, 250, 500}

(* The number of entries of arr whose priority is below the bound. *)
Below(arr, bound) == Cardinality({i \in 1..Len(arr) : arr[i].priority < bound})

(* The entry goes before the entries of its own priority. *)
AddCallbackBefore(arr, d, priority, data, data_size) ==
    LET k == Below(arr, priority)
    IN  SubSeq(arr, 1, k)
          \o <<[d EXCEPT !.priority = priority, !.data = data, !.data_size = data_size]>>
          \o SubSeq(arr, k + 1, Len(arr))

(* lfModifier::AddCallback: the entry goes behind the entries whose *)
(* priority is not above its own.                                   *)
AddCallback(arr, d, priority, data, data_size) ==
    LET k == Below(arr, priority + 1)
    IN  SubSeq(arr, 1, k)
          \o <<[d EXCEPT !.priority = priority, !.data = data, !.data_size = data_size]>>
          \o SubSeq(arr, k + 1, Len(arr))

(* A new lfCallbackData for the function callback. *)
lfCallbackData(callback) == [callback |-> callback, priority |-> 0, data |-> 0, data_size |-> 0]

(* The client passes the number of the registration as data, with *)
(* data_size 0: the value is stored verbatim.                     *)
Registrations == Len(SubpixelCallbacks) + Len(ColorCallbacks) + Len(CoordCallbacks)

AddCoordCallback(callback, priority) ==
    /\ Registrations < MaxCallbacks
    /\ CoordCallbacks' = AddCallback(CoordCallbacks, lfCallbackData(callback), priority,
                                     Registrations + 1, 0)
    /\ Called("AddCoordCallback", priority, CoordCallbacks, TRUE)
    /\ UNCHANGED <<lens, statics, SubpixelCallbacks, ColorCallbacks>>

AddSubpixelCallback(callback, priority) ==
    /\ Registrations < MaxCallbacks
    /\ SubpixelCallbacks' = AddCallback(SubpixelCallbacks, lfCallbackData(callback), priority,
                                        Registrations + 1, 0)
    /\ Called("AddSubpixelCallback", priority, SubpixelCallbacks, TRUE)
    /\ UNCHANGED <<lens, statics, ColorCallbacks, CoordCallbacks>>

AddColorCallback(callback, priority) ==
    /\ Registrations < MaxCallbacks
    /\ ColorCallbacks' = AddCallback(ColorCallbacks, lfCallbackData(callback), priority,
                                     Registrations + 1, 0)
    /\ Called("AddColorCallback", priority, ColorCallbacks, TRUE)
    /\ UNCHANGED <<lens, statics, SubpixelCallbacks, CoordCallbacks>>

NextCallbacks ==
    \/ \E priority \in Priorities : AddCoordCallback("lfModifyCoordFunc", priority)
    \/ \E priority \in Priorities : AddSubpixelCallback("lfSubpixelCoordFunc", priority)
    \/ \E priority \in Priorities : AddColorCallback("lfModifyColorFunc", priority)

SpecCallbacks == Init /\ [][NextCallbacks]_vars

(***************************************************************************)
(* __parameter_scales (lens.cpp) on its own: the callers pass one focal    *)
(* length, the kind of correction, the model and the index of the term.    *)
(***************************************************************************)
(* <<type, model, number of terms>> *)
ScaleModels ==
    {<<"LF_MODIFY_DISTORTION", m, 5>> :
        m \in {"LF_DIST_MODEL_NONE", "LF_DIST_MODEL_POLY3", "LF_DIST_MODEL_POLY5",
               "LF_DIST_MODEL_PTLENS", "LF_DIST_MODEL_ACM"}}
    \cup {<<"LF_MODIFY_TCA", m, 12>> :
        m \in {"LF_TCA_MODEL_NONE", "LF_TCA_MODEL_LINEAR", "LF_TCA_MODEL_POLY3", "LF_TCA_MODEL_ACM"}}
    \cup {<<"LF_MODIFY_VIGNETTING", m, 3>> : m \in VignettingModels}

ScaleFocals == {2, 3, 5}

CallParameterScales(v, type, model, index) ==
    /\ Called("__parameter_scales", <<v, type, model, index>>, Nil,
              __parameter_scales(R(v), type, model, index))
    /\ UNCHANGED <<lens, modifier, statics>>

NextScales ==
    \E v \in ScaleFocals, m \in ScaleModels :
        \E index \in 0..(m[3] - 1) : CallParameterScales(v, m[1], m[2], index)

SpecScales == Init /\ [][NextScales]_vars

(***************************************************************************)
(* Construction and destruction of lfLens objects (lens.cpp).  The fields  *)
(* of the state are those of the lens the program works with; the other    *)
(* live objects are counted.                                               *)
(***************************************************************************)
(* Bound on the number of live lfLens objects, and on the number of copy *)
(* constructions the reference counter has not counted.                  *)
MaxLenses == 3

(* _lf_lens_regex_refs, live and lens_name_regex before the call. *)
StaticsNow == [refs |-> _lf_lens_regex_refs, live |-> live, compiled |-> lens_name_regex]

(* lf_lens_new: lfLens::lfLens ().  The object becomes the lens of the *)
(* state when no other is live.                                        *)
lf_lens_new ==
    /\ live < MaxLenses
    /\ _lf_lens_regex_refs' = _lf_lens_regex_refs + 1
    /\ live' = live + 1
    /\ IF live = 0
       THEN /\ MinFocal' = 0
            /\ MaxFocal' = 0
            /\ MinAperture' = 0
            /\ MaxAperture' = 0
            /\ Model' = NoModel
       ELSE UNCHANGED <<MinFocal, MaxFocal, MinAperture, MaxAperture, Model>>
    /\ Called("lf_lens_new", Nil, StaticsNow, TRUE)
    /\ UNCHANGED <<Lists, Maker, Mounts, Geometry, modifier, lens_name_regex, uncompiled_use>>

(* lfLens::lfLens (const lfLens &other): the fields are copied, the *)
(* counter is not touched.                                          *)
lfLensCopy ==
    /\ live >= 1
    /\ live < MaxLenses
    /\ live - _lf_lens_regex_refs < MaxLenses
    /\ live' = live + 1
    /\ Called("lfLens (const lfLens &)", Nil, StaticsNow, TRUE)
    /\ UNCHANGED <<lens, modifier, _lf_lens_regex_refs, lens_name_regex, uncompiled_use>>

(* lf_lens_destroy: lfLens::~lfLens (). *)
lf_lens_destroy ==
    /\ live >= 1
    /\ live' = live - 1
    /\ _lf_lens_regex_refs' = _lf_lens_regex_refs - 1
    /\ lens_name_regex' = IF _lf_lens_regex_refs - 1 = 0
                          THEN _lf_free_lens_regex(lens_name_regex)
                          ELSE lens_name_regex
    /\ Called("lf_lens_destroy", Nil, StaticsNow, TRUE)
    /\ UNCHANGED <<lens, modifier, uncompiled_use>>

(* lfLens::SetModel on a lens without name. *)
SetModel(val) ==
    /\ live >= 1
    /\ Model = NoModel
    /\ Model' = val
    /\ Called("SetModel", val, StaticsNow, TRUE)
    /\ UNCHANGED <<Lists, MinFocal, MaxFocal, MinAperture, MaxAperture, Maker, Mounts,
                   Geometry, modifier, statics>>

NextLenses ==
    \/ lf_lens_new
    \/ lfLensCopy
    \/ lf_lens_destroy
    \/ \E val \in {"Rolleinar", "4mm f/2"} : SetModel(val)
    \/ live >= 1 /\ CallGuessParameters

SpecLenses == Init /\ [][NextLenses]_vars

(***************************************************************************)
(* Properties.  They read the call record: op is the last call, arg its    *)
(* argument, pre the list it was applied to as it was before the call,     *)
(* res0 and res the caller's output record before and after it.            *)
(***************************************************************************)
(* The key of a record: Focal, and Aperture and Distance for vignetting. *)
Key(r) == IF "Aperture" \in DOMAIN r THEN <<r.Focal, r.Aperture, r.Distance>> ELSE <<r.Focal>>

(* The key a query asks for. *)
QueryKey == IF op = "InterpolateVignetting" THEN arg ELSE <<arg>>

(* The NONE model of the kind of the last call. *)
NoneModel ==
    CASE op \in {"AddCalibDistortion", "RemoveCalibDistortion", "InterpolateDistortion"} -> "LF_DIST_MODEL_NONE"
      [] op \in {"AddCalibTCA", "RemoveCalibTCA", "InterpolateTCA"} -> "LF_TCA_MODEL_NONE"
      [] op \in {"AddCalibVignetting", "RemoveCalibVignetting", "InterpolateVignetting"} -> "LF_VIGNETTING_MODEL_NONE"
      [] op \in {"AddCalibCrop", "RemoveCalibCrop", "InterpolateCrop"} -> "LF_NO_CROP"
      [] OTHER -> "none"

(* The list of the kind of the last call, as it is now. *)
ListOfCall ==
    CASE op \in {"AddCalibDistortion", "RemoveCalibDistortion", "InterpolateDistortion"} -> CalibDistortion
      [] op \in {"AddCalibTCA", "RemoveCalibTCA", "InterpolateTCA"} -> CalibTCA
      [] op \in {"AddCalibVignetting", "RemoveCalibVignetting", "InterpolateVignetting"} -> CalibVignetting
      [] op \in {"AddCalibCrop", "RemoveCalibCrop", "InterpolateCrop"} -> CalibCrop
      [] OTHER -> CalibFov

(* The positions of the records that carry a model. *)
WithModel(recs) == {i \in 1..Len(recs) : ModelOf(recs[i]) # NoneModel}

(* The model of the first record in list order that carries one. *)
FirstModel(recs) ==
    IF WithModel(recs) = {} THEN NoneModel ELSE ModelOf(recs[Min(WithModel(recs))])

(* The positions of the records with the key the query asks for. *)
Matches(recs) == {i \in 1..Len(recs) : Key(recs[i]) = QueryKey}

(* The call returned true and the output is the record at position i. *)
Verbatim(recs, i) == ret /\ res = recs[i]

(* Record i is returned on an exact match: it carries the first model.    *)
Eligible(recs, i) == ModelOf(recs[i]) # NoneModel /\ ModelOf(recs[i]) = FirstModel(recs)

(* C1 (corrected): when the query focal equals the Focal of a record of   *)
(* the distortion list whose Model is not NONE and is the Model of the    *)
(* first non-NONE record in list order, InterpolateDistortion returns     *)
(* true and the output equals that record field for field; a record with  *)
(* Model NONE or with another Model is never returned.                    *)
C1_ExactDistortion ==
    op = "InterpolateDistortion" =>
        LET recs == Records(pre)
        IN  \A i \in Matches(recs) :
                IF Eligible(recs, i) THEN Verbatim(recs, i) ELSE ~Verbatim(recs, i)

(* C1 as stated: every record with the queried Focal is returned. *)
C1_AsStated ==
    op = "InterpolateDistortion" =>
        LET recs == Records(pre)
        IN  \A i \in Matches(recs) : Verbatim(recs, i)

(* The match is the second or a later record and a record with another    *)
(* model is in the list.                                                  *)
C1_Witness ==
    /\ op = "InterpolateDistortion"
    /\ LET recs == Records(pre)
       IN  \E i \in Matches(recs) :
               /\ i > 1
               /\ Verbatim(recs, i)
               /\ \E j \in WithModel(recs) : ModelOf(recs[j]) # ModelOf(recs[i])

(* A record of the FoV list counts when its FieldOfView is not 0. *)
FovUsable(recs, i) == recs[i].FieldOfView # R(0)

(* C2 (corrected): InterpolateTCA and InterpolateCrop return the record   *)
(* with the queried Focal verbatim when its Model / CropMode is not NONE  *)
(* and is that of the first non-NONE record of the list; InterpolateFov   *)
(* returns it verbatim when its FieldOfView is not 0.  Otherwise that     *)
(* record is not what the call returns.                                   *)
C2_ExactOthers ==
    /\ op \in {"InterpolateTCA", "InterpolateCrop"} =>
          LET recs == Records(pre)
          IN  \A i \in Matches(recs) :
                  IF Eligible(recs, i) THEN Verbatim(recs, i) ELSE ~Verbatim(recs, i)
    /\ op = "InterpolateFov" =>
          LET recs == Records(pre)
          IN  \A i \in Matches(recs) :
                  IF FovUsable(recs, i) THEN Verbatim(recs, i) ELSE ~Verbatim(recs, i)

(* C2 as stated. *)
C2_AsStated ==
    op \in {"InterpolateTCA", "InterpolateCrop", "InterpolateFov"} =>
        LET recs == Records(pre)
        IN  \A i \in Matches(recs) : Verbatim(recs, i)

(* An exact match of InterpolateFov behind a record that is skipped. *)
C2_Witness ==
    /\ op = "InterpolateFov"
    /\ LET recs == Records(pre)
       IN  \E i \in Matches(recs) :
               /\ i > 1
               /\ Verbatim(recs, i)
               /\ \E j \in 1..Len(recs) : ~FovUsable(recs, j)

(* The record at position i lies within 0.0001 of the queried triple. *)
Within(recs, i) ==
    DistBelowExact(__vignetting_dist(MinFocal, MaxFocal, recs[i], arg[1], arg[2], arg[3]))

(* The vignetting model in force when the loop reaches position i lets    *)
(* record i through: no record before it carries a model, or the first    *)
(* that does carries the model of record i.                               *)
InForce(recs, i) ==
    LET before == {j \in 1..(i - 1) : recs[j].Model # "LF_VIGNETTING_MODEL_NONE"}
    IN  before = {} \/ recs[Min(before)].Model = recs[i].Model

(* The records InterpolateVignetting can return verbatim. *)
Close(recs) == {i \in 1..Len(recs) : InForce(recs, i) /\ Within(recs, i)}

(* C3 (corrected): a record whose key triple equals the query lies within *)
(* 0.0001 of it, and when some record that the model in force lets        *)
(* through lies within 0.0001 of the query, InterpolateVignetting returns *)
(* true and the output equals the first such record in list order: the    *)
(* record with the queried key only if the model in force lets it through *)
(* and no earlier such record lies within 0.0001.                         *)
C3_ExactVignetting ==
    op = "InterpolateVignetting" =>
        LET recs == Records(pre)
        IN  /\ \A i \in Matches(recs) : Within(recs, i)
            /\ Close(recs) # {} => Verbatim(recs, Min(Close(recs)))
            /\ \A i \in Matches(recs) :
                   IF i = Min(Close(recs) \cup {i}) /\ InForce(recs, i)
                   THEN Verbatim(recs, i)
                   ELSE ~Verbatim(recs, i)

(* C3 as stated: the record with the queried key triple is returned. *)
C3_AsStated ==
    op = "InterpolateVignetting" =>
        LET recs == Records(pre)
        IN  \A i \in Matches(recs) : Verbatim(recs, i)

(* The record with the queried key is returned while another record of    *)
(* the list lies within 0.0001 of the query.                              *)
C3_Witness ==
    /\ op = "InterpolateVignetting"
    /\ LET recs == Records(pre)
       IN  \E i \in Matches(recs) :
               /\ Verbatim(recs, i)
               /\ \E j \in 1..Len(recs) : j # i /\ Within(recs, j)

(* C4 as stated: an Interpolate* call that returns false leaves every     *)
(* field of the caller's output record as it was before the call.         *)
C4_OutputUntouched == (op \in InterpolateOps /\ ~ret) => res = res0

(* C5 as stated: InterpolateDistortion, InterpolateTCA,                   *)
(* InterpolateVignetting and InterpolateCrop return false when the list   *)
(* is empty or every record of it has the NONE model.                     *)
C5_NoneListFails ==
    (/\ op \in {"InterpolateDistortion", "InterpolateTCA", "InterpolateVignetting", "InterpolateCrop"}
     /\ WithModel(Records(pre)) = {})
    => ~ret

(* C6 (corrected): on a list of exactly one record, InterpolateDistortion, *)
(* InterpolateTCA and InterpolateCrop return it verbatim for every query   *)
(* when its model is not NONE, and InterpolateFov when its FieldOfView is  *)
(* not 0 (they return false otherwise).  InterpolateVignetting returns it  *)
(* verbatim only for a query within 0.0001 of it; for any other query the  *)
(* output carries the queried Focal, Aperture and Distance, and the call   *)
(* returns false exactly when the distance is above 1.                     *)
C6_SingleRecord ==
    (op \in InterpolateOps /\ Len(Records(pre)) = 1) =>
        LET recs == Records(pre)
        IN  CASE op = "InterpolateVignetting" ->
                   IF Within(recs, 1) THEN Verbatim(recs, 1)
                   ELSE /\ <<res.Focal, res.Aperture, res.Distance>> = arg
                        /\ res.Model = recs[1].Model
                        /\ ret = ~DistAboveOne(__vignetting_dist(MinFocal, MaxFocal, recs[1],
                                                                 arg[1], arg[2], arg[3]))
              [] op = "InterpolateFov" ->
                   IF FovUsable(recs, 1) THEN Verbatim(recs, 1) ELSE ~ret
              [] OTHER ->
                   IF ModelOf(recs[1]) # NoneModel THEN Verbatim(recs, 1) ELSE ~ret

(* C6 as stated: the one record (non-NONE model) is returned verbatim for *)
(* every query, for all five kinds.                                       *)
C6_AsStated ==
    (op \in InterpolateOps /\ Len(Records(pre)) = 1) =>
        LET recs == Records(pre)
        IN  (op = "InterpolateFov" \/ ModelOf(recs[1]) # NoneModel) => Verbatim(recs, 1)

(* The one record is returned for a query that differs from its Focal. *)
C6_Witness ==
    /\ op = "InterpolateDistortion"
    /\ Len(Records(pre)) = 1
    /\ Records(pre)[1].Focal # arg
    /\ Verbatim(Records(pre), 1)

(* An allocated array ends with its only NULL slot. *)
NullTerminated(var) ==
    IF var.alloc
    THEN /\ Len(var.arr) >= 1
         /\ var.arr[Len(var.arr)] = NullSlot
         /\ \A i \in 1..(Len(var.arr) - 1) : var.arr[i] # NullSlot
    ELSE var.arr = <<>>

(* No two records of the list have the same key. *)
DistinctKeys(recs) == \A i, j \in 1..Len(recs) : Key(recs[i]) = Key(recs[j]) => i = j

(* C7 (confirmed): after any sequence of AddCalib* and RemoveCalib* calls *)
(* on an empty lens each of the five lists is NULL-terminated and holds   *)
(* no two records with the same key (Focal, or Focal, Aperture and        *)
(* Distance for vignetting), whatever their Model / CropMode.             *)
C7_ListsWellFormed ==
    \A k \in 1..5 : NullTerminated(Lists[k]) /\ DistinctKeys(Records(Lists[k]))

(* A record was added over one with its key and another Model. *)
C7_Witness ==
    /\ op \in AddOps \ {"AddCalibFov"}
    /\ Len(Records(ListOfCall)) >= 2
    /\ \E i \in 1..Len(Records(pre)) :
           /\ Key(Records(pre)[i]) = Key(arg)
           /\ ModelOf(Records(pre)[i]) # ModelOf(arg)
           /\ Records(ListOfCall)[i] = arg

(* C8 (confirmed): AddCalib*(r) replaces the record with r's key at its   *)
(* position by a copy of r, the length and the other records staying as   *)
(* they were, or appends the copy after the last record when no record    *)
(* has r's key; the caller overwriting r afterwards changes no list.      *)
C8_AddCopies ==
    /\ op \in AddOps =>
          LET old  == Records(pre)
              new  == Records(ListOfCall)
              hits == {i \in 1..Len(old) : Key(old[i]) = Key(arg)}
          IN  IF hits # {}
              THEN /\ Len(new) = Len(old)
                   /\ \A i \in 1..Len(old) : new[i] = IF i \in hits THEN arg ELSE old[i]
              ELSE new = Append(old, arg)
    /\ op = "ReuseRecord" => AllRecords = pre

(* The caller overwrote the record it had added to a list of two or more. *)
C8_Witness ==
    /\ op = "ReuseRecord"
    /\ AllRecords = pre
    /\ \E k \in 1..5 :
           /\ Len(AllRecords[k]) >= 2
           /\ DOMAIN AllRecords[k][1] = DOMAIN arg
           /\ \A i \in 1..Len(AllRecords[k]) : AllRecords[k][i] # arg

(* The list with the record at zero-based position idx taken out. *)
Without(recs, idx) == [i \in 1..(Len(recs) - 1) |-> IF i <= idx THEN recs[i] ELSE recs[i + 1]]

(* An allocated list without records. *)
EmptyList == [alloc |-> TRUE, arr |-> <<NullSlot>>]

(* C9 (confirmed): RemoveCalib*(idx) with 0 <= idx < length returns true, *)
(* takes out exactly the record at position idx and keeps the others, in  *)
(* order, and the NULL terminator; with any other idx or a list never     *)
(* allocated it returns false and leaves the list as it was.  To a list   *)
(* emptied this way AddCalib* adds a first record and Interpolate* is     *)
(* applied (it returns false).                                            *)
C9_RemoveAtIndex ==
    /\ op \in RemoveOps =>
          LET old == Records(pre)
          IN  IF pre.alloc /\ 0 <= arg /\ arg < Len(old)
              THEN /\ ret
                   /\ Records(ListOfCall) = Without(old, arg)
                   /\ NullTerminated(ListOfCall)
                   /\ ListOfCall.alloc
              ELSE ~ret /\ ListOfCall = pre
    /\ (op \in AddOps /\ pre = EmptyList) => Records(ListOfCall) = <<arg>>
    /\ (op \in InterpolateOps /\ pre = EmptyList) => ~ret

(* The second of three records was removed. *)
C9_Witness ==
    /\ op \in RemoveOps
    /\ ret
    /\ arg = 1
    /\ Len(Records(pre)) = 3
    /\ Records(ListOfCall) = <<Records(pre)[1], Records(pre)[3]>>

(* C10 (confirmed): a GuessParameters call that follows a GuessParameters *)
(* call leaves MinFocal, MaxFocal, MinAperture and MaxAperture as the     *)
(* first call left them.                                                  *)
C10_GuessIdempotent ==
    (op = "GuessParameters" /\ arg = "GuessParameters") => Fields = pre

(* The second call on a lens whose focal range the first call guessed. *)
C10_Witness ==
    /\ op = "GuessParameters"
    /\ arg = "GuessParameters"
    /\ Fields = pre
    /\ MinFocal \notin {0, 3}
    /\ MaxFocal \notin {0, 4}

(* C11 (confirmed): Check applies GuessParameters and then returns true  *)
(* exactly when Model is present, the mount list is present, CropFactor  *)
(* is above 0, MinFocal <= MaxFocal, AspectRatio >= 1 and, if            *)
(* MaxAperture is not 0, MinAperture <= MaxAperture; the fields are      *)
(* those GuessParameters left.                                           *)
C11_CheckResult ==
    op = "Check" =>
        /\ Fields = GuessParameters(pre, Model, CalibDistortion, CalibTCA, CalibVignetting,
                                    CalibCrop, CalibFov)
        /\ ret <=> /\ Model # NoModel
                   /\ Mounts # NullList
                   /\ CropFactor[1] > 0
                   /\ MinFocal <= MaxFocal
                   /\ AspectRatio[1] >= AspectRatio[2]
                   /\ (MaxAperture # 0 => MinAperture <= MaxAperture)

(* Check passes a lens whose focal range was guessed from the name and *)
(* whose MaxAperture stayed 0 below MinAperture.                        *)
C11_Witness ==
    /\ op = "Check"
    /\ ret
    /\ pre.MinFocal = 0
    /\ MinFocal = 4
    /\ MaxFocal = 4
    /\ MaxAperture = 0
    /\ MinAperture > 0

(* The squared distance from the query to the record at position i. *)
QueryDist(recs, i) == __vignetting_dist(MinFocal, MaxFocal, recs[i], arg[1], arg[2], arg[3])

(* The samples that contribute: those the model in force lets through. *)
Contributing(recs) == {i \in 1..Len(recs) : InForce(recs, i)}

(* C12 (confirmed): InterpolateVignetting returns true exactly when at   *)
(* least one sample contributed and the smallest distance D from the     *)
(* query to a contributing sample is at most 1; it returns false when    *)
(* every contributing sample is farther than 1 and when there is none.   *)
C12_VignettingReturn ==
    op = "InterpolateVignetting" =>
        LET recs == Records(pre)
        IN  ret <=> \E i \in Contributing(recs) :
                        QueryDist(recs, i)[1] <= QueryDist(recs, i)[2]

(* The nearest contributing sample lies at distance 1 exactly, none within *)
(* 0.0001, and a sample of another model lies nearer and does not count.   *)
C12_Witness ==
    /\ op = "InterpolateVignetting"
    /\ ret
    /\ LET recs == Records(pre)
       IN  /\ \A i \in Contributing(recs) : QueryDist(recs, i)[1] >= QueryDist(recs, i)[2]
           /\ \E i \in 1..Len(recs) : i \notin Contributing(recs) /\ Within(recs, i)

(* The list holds the records at 24 mm and 70 mm and the query is 47 mm. *)
C13_Example ==
    /\ op = "InterpolateDistortion"
    /\ arg = 47
    /\ Len(Records(pre)) = 2
    /\ {Records(pre)[1], Records(pre)[2]} = {Poly5(24, Rat(1, 20)), Poly5(70, Rat(-1, 50))}

(* C13 (corrected): with POLY5 records at 24 mm (k1 = 0.05, k2 = 0) and   *)
(* 70 mm (k1 = -0.02, k2 = 0), InterpolateDistortion (47) returns true    *)
(* with t = 0.5 and a record of Model POLY5 and Focal 47 whose k1 is the  *)
(* mean of the focal-scaled coefficients divided by the queried focal,    *)
(* (0.05 * 24 - 0.02 * 70) / 2 / 47 = -1/470, and whose k2 is 0.          *)
C13_Poly5Example ==
    C13_Example =>
        /\ ret
        /\ SplineT(<<Poly5(24, Rat(1, 20)), Poly5(70, Rat(-1, 50))>>,
                   [spline |-> [k \in 0..3 |-> IF k = 1 THEN 1 ELSE IF k = 2 THEN 2 ELSE 0]],
                   arg) = Rat(1, 2)
        /\ res.Model = "LF_DIST_MODEL_POLY5"
        /\ res.Focal = 47
        /\ res.Terms[0] = Rat(-1, 470)
        /\ res.Terms[1] = R(0)

(* C13 as stated: the interpolated k1 is 0.015. *)
C13_AsStated ==
    C13_Example => ret /\ res.Terms[0] = Rat(3, 200) /\ res.Terms[1] = R(0)

(* The example call was made and gave the focal-scaled result. *)
C13_Witness ==
    /\ C13_Example
    /\ ret
    /\ res.Terms[0] = Rat(-1, 470)

(* The aperture and distance parts of the squared distance from the query *)
(* to record x.                                                           *)
ApertureDistancePart(x) ==
    RAdd(square(RSub(Rat(4, x.Aperture), Rat(4, arg[2]))),
         square(RSub(Rat(1, 10 * x.Distance), Rat(1, 10 * arg[3]))))

(* C14 (corrected): in __vignetting_dist with MaxFocal == MinFocal no     *)
(* division by zero happens (D is a number), and the focal coordinates of *)
(* query and sample stay un-normalised, focal - MinFocal and x.Focal -    *)
(* MinFocal: the focal axis adds the square of the focal difference in    *)
(* millimetres to D^2, nothing only for a sample at the queried focal.    *)
C14_DegenerateRange ==
    (op = "InterpolateVignetting" /\ MinFocal = MaxFocal) =>
        \A i \in 1..Len(Records(pre)) :
            LET x == Records(pre)[i]
            IN  /\ QueryDist(Records(pre), i) # NAN
                /\ QueryDist(Records(pre), i)
                     = RAdd(square(R(x.Focal - arg[1])), ApertureDistancePart(x))

(* C14 as stated: with MaxFocal == MinFocal the focal axis contributes *)
(* nothing to D.                                                       *)
C14_AsStated ==
    (op = "InterpolateVignetting" /\ MinFocal = MaxFocal) =>
        \A i \in 1..Len(Records(pre)) :
            QueryDist(Records(pre), i) = ApertureDistancePart(Records(pre)[i])

(* A sample with the aperture and distance of the query, one millimetre *)
(* off in focal length on a lens with MaxFocal == MinFocal, lies at     *)
(* distance 1 and is the only sample weighted.                          *)
C14_Witness ==
    /\ op = "InterpolateVignetting"
    /\ MinFocal = MaxFocal
    /\ ret
    /\ Len(Records(pre)) = 1
    /\ Records(pre)[1].Focal # arg[1]
    /\ QueryDist(Records(pre), 1) = R(1)
    /\ res.Focal = arg[1]

(***************************************************************************)
(* The storage format of multi-language strings (lensfun.h): the default   *)
(* string, then language codes and translations in turn, each terminated   *)
(* by a NUL, the list ending where a NUL stands instead of a next string.  *)
(***************************************************************************)
(* The strings of bytes from 1-based position i on; end is the position of *)
(* the closing NUL, 0 if the bytes end without one.                        *)
RECURSIVE Split(_, _, _)
Split(bytes, i, segs) ==
    IF i > Len(bytes) THEN [segs |-> segs, end |-> 0]
    ELSE IF bytes[i] = 0 THEN [segs |-> segs, end |-> i]
    ELSE LET j == Min({k \in i..Len(bytes) : bytes[k] = 0} \cup {Len(bytes) + 1})
         IN  Split(bytes, j + 1, Append(segs, SubSeq(bytes, i, j - 1)))

Segments(str) == Split(str.bytes, 1, <<>>).segs

(* A default string and whole pairs fill the allocation up to its closing NUL. *)
WellFormed(str) ==
    /\ str.alloc
    /\ Split(str.bytes, 1, <<>>).end = Len(str.bytes)
    /\ Len(Segments(str)) % 2 = 1

Default(str) == Segments(str)[1]

(* The (language, translation) pairs in order. *)
Pairs(str) ==
    [k \in 1..((Len(Segments(str)) - 1) \div 2) |-> <<Segments(str)[2 * k], Segments(str)[2 * k + 1]>>]

(* The string that starts at 0-based offset p, which is the start of one *)
(* of the strings of the buffer.                                         *)
SegmentAt(str, p) ==
    LET ends == {k \in (p + 1)..Len(str.bytes) : str.bytes[k] = 0}
    IN  IF p < 0 \/ ends = {} \/ (p > 0 /\ str.bytes[p] # 0) THEN NULL
        ELSE SubSeq(str.bytes, p + 1, Min(ends) - 1)

(* The positions of the pairs of the language "en". *)
English(str) == {k \in 1..Len(Pairs(str)) : Pairs(str)[k][1] = <<101, 110>>}

C16_AsStated ==
    (op = "SetMaker" /\ arg[1] = NULL /\ arg[2] # NULL /\ WellFormed(pre)) =>
        /\ ~ret.oob
        /\ WellFormed(Maker)
        /\ Default(Maker) = arg[2]
        /\ Pairs(Maker) = Pairs(pre)

(* C17 as stated: lf_mlstr_add (str, lang, v) with a language yields a    *)
(* well-formed string with the default and the pairs of str followed by   *)
(* the pair (lang, v), for a well-formed str and for NULL, and its        *)
(* default string is no language code.                                    *)
C17_AsStated ==
    (op = "SetMaker" /\ arg[1] # NULL /\ arg[2] # NULL /\ (pre = NullStr \/ WellFormed(pre))) =>
        /\ ~ret.oob
        /\ WellFormed(Maker)
        /\ Default(Maker) \notin Languages
        /\ pre # NullStr => Default(Maker) = Default(pre)
        /\ Pairs(Maker) = (IF pre = NullStr THEN <<>> ELSE Pairs(pre)) \o <<arg>>

(* C18 as stated: lf_mlstr_dup returns a buffer with the strings of s,   *)
(* leaves s as it was, and returns an absent string for s = NULL.        *)
C18_AsStated ==
    op = "lf_mlstr_dup" =>
        /\ Maker = pre
        /\ WellFormed(pre) => ~ret.oob /\ ret.str = pre
        /\ pre = NullStr => ret.str = NullStr

(* The fields C19 names, the lists as the sequences of their entries. *)
Copied(l) ==
    <<l.MinFocal, l.MaxFocal, l.MinAperture, l.MaxAperture, l.CenterX, l.CenterY,
      l.CropFactor, l.AspectRatio, l.Type, Records(l.Mounts),
      Records(l.CalibDistortion), Records(l.CalibTCA), Records(l.CalibVignetting),
      Records(l.CalibCrop), Records(l.CalibFov)>>

(* C19 as stated: after lf_lens_copy (dest, source) dest has the range,  *)
(* geometry and type fields, the mounts and the five calibration lists   *)
(* source had before the call, also when dest and source are one object  *)
(* (source is then unchanged as well).  arg is the source as it was      *)
(* before the call, pre tells whether it is the destination itself.      *)
C19_AsStated ==
    op = "lf_lens_copy" => Copied(This) = Copied(arg)

(* C19 for distinct objects: the copy has the fields of the source. *)
C19_DistinctObjects ==
    (op = "lf_lens_copy" /\ ~pre) => Copied(This) = Copied(arg)

(* The entries of a chain stand in ascending priority, entries of equal *)
(* priority in the order of their registration numbers.                 *)
Ordered(arr) ==
    \A i, j \in 1..Len(arr) :
        i < j => \/ arr[i].priority < arr[j].priority
                 \/ arr[i].priority = arr[j].priority /\ arr[i].data < arr[j].data

(* C20 (confirmed against the described AddCallback): after any sequence *)
(* of AddCoordCallback, AddSubpixelCallback and AddColorCallback calls    *)
(* each chain is ordered by ascending priority and callbacks of equal     *)
(* priority keep their registration order.                                *)
C20_ChainsOrdered ==
    /\ Ordered(SubpixelCallbacks)
    /\ Ordered(ColorCallbacks)
    /\ Ordered(CoordCallbacks)

(* Two callbacks of priority 500 registered first and second, one of *)
(* priority 100 registered third and one of 250 registered last.     *)
C20_Witness ==
    /\ op = "AddCoordCallback"
    /\ Len(CoordCallbacks) = 4
    /\ [i \in 1..4 |-> CoordCallbacks[i].priority] = <<100, 250, 500, 500>>
    /\ [i \in 1..4 |-> CoordCallbacks[i].data] = <<3, 4, 1, 2>>

(* The three interpolators that latch a model in their scan loop. *)
LatchOps == {"InterpolateDistortion", "InterpolateTCA", "InterpolateCrop"}

(* The state the scan loop of the last call ended in. *)
ScanOfCall == ScanModel(Records(pre), 1, arg, NoneModel, ScanStart(NoneModel))

(* The positions the scan kept: the exact match and the four spline slots. *)
Kept(st) == ({st.match} \cup {st.sp.spline[k] : k \in 0..3}) \ {0}

(* C21 (confirmed): InterpolateDistortion, InterpolateTCA and             *)
(* InterpolateCrop latch the model of the first record in list order      *)
(* whose model is not NONE: every record the scan keeps (the exact match, *)
(* the spline slots) has that model, so no record with NONE or another    *)
(* model is used, and a call that returns true reports that model.        *)
C21_ModelLatched ==
    op \in LatchOps =>
        LET recs == Records(pre)
            st   == ScanOfCall
        IN  /\ st.model = FirstModel(recs)
            /\ \A i \in Kept(st) : ModelOf(recs[i]) = FirstModel(recs) /\ ModelOf(recs[i]) # NoneModel
            /\ ret => /\ ModelOf(res) = FirstModel(recs)
                      /\ ModelOf(res) # NoneModel

(* An interpolated result on a list that holds a record of another model *)
(* between the two neighbours.                                            *)
C21_Witness ==
    /\ op \in LatchOps
    /\ ret
    /\ LET recs == Records(pre)
       IN  /\ Matches(recs) = {}
           /\ res.Focal = arg
           /\ \E j \in WithModel(recs) : j > 1 /\ ModelOf(recs[j]) # FirstModel(recs)
           /\ Cardinality(Kept(ScanOfCall)) = 2

(* The state the scan loop of the last InterpolateVignetting call ended in. *)
VignettingScanOfCall ==
    ScanVignetting(Records(pre), 1, MinFocal, MaxFocal, arg, "LF_VIGNETTING_MODEL_NONE",
                   [vm |-> "LF_VIGNETTING_MODEL_NONE", assigned |-> FALSE, match |-> 0,
                    contrib |-> <<>>, smallest |-> R(FLT_MAX)])

(* The positions of the samples that were weighted or returned verbatim. *)
Weighted(st) == ({st.match} \cup {st.contrib[k][1] : k \in 1..Len(st.contrib)}) \ {0}

(* C22 as stated: every sample of InterpolateVignetting that is weighted  *)
(* or returned as exact match has the Model the output reports, which is  *)
(* the first non-NONE model in list order; a sample with model NONE never *)
(* contributes.                                                           *)
C22_AsStated ==
    op = "InterpolateVignetting" =>
        LET recs == Records(pre)
        IN  \A i \in Weighted(VignettingScanOfCall) :
                /\ recs[i].Model # "LF_VIGNETTING_MODEL_NONE"
                /\ recs[i].Model = res.Model
                /\ recs[i].Model = FirstModel(recs)

(* What the loop does keep: a weighted sample has the model that was in   *)
(* force when the loop reached it, a NONE sample being let through while  *)
(* no record before it carries a model.                                   *)
C22_InForce ==
    op = "InterpolateVignetting" =>
        LET recs == Records(pre)
        IN  \A i \in Weighted(VignettingScanOfCall) : InForce(recs, i)

(* The four interpolators that select neighbours with __insert_spline. *)
SplineOps == LatchOps \cup {"InterpolateFov"}

(* The scan loop of the last call, run on the records recs. *)
SplineScan(recs) ==
    IF op = "InterpolateFov"
    THEN ScanFov(recs, 1, arg, ScanStart("none"))
    ELSE ScanModel(recs, 1, arg, NoneModel, ScanStart(NoneModel))

(* The last call, made on the list list. *)
ResultOn(list) ==
    LET r == CASE op = "InterpolateDistortion" -> InterpolateDistortion(list, arg, res0)
               [] op = "InterpolateTCA"        -> InterpolateTCA(list, arg, res0)
               [] op = "InterpolateCrop"       -> InterpolateCrop(list, arg, res0)
               [] OTHER                        -> InterpolateFov(list, arg, res0)
    IN  <<r.ret, r.res>>

(* The list that holds copies of the records recs in this order. *)
ListFrom(recs) ==
    [alloc |-> TRUE,
     arr   |-> [i \in 1..(Len(recs) + 1) |-> IF i <= Len(recs) THEN <<recs[i]>> ELSE NullSlot]]

(* The orders of n records. *)
Orders(n) == {p \in [1..n -> 1..n] : \A i, j \in 1..n : p[i] = p[j] => i = j}

Reordered(recs, p) == [i \in 1..Len(recs) |-> recs[p[i]]]

(* The positions of the records the scan can take: those of the latched  *)
(* model, for the field of view those with a FieldOfView.                *)
Usable(recs) ==
    IF op = "InterpolateFov"
    THEN {i \in 1..Len(recs) : FovUsable(recs, i)}
    ELSE {i \in 1..Len(recs) : Eligible(recs, i)}

(* The record of S nearest to the query focal, Nil for none. *)
Nearest(recs, S) ==
    IF S = {} THEN Nil
    ELSE recs[CHOOSE i \in S : \A j \in S : Abs(recs[i].Focal - arg) <= Abs(recs[j].Focal - arg)]

(* The nearest and the second-nearest record of S. *)
TwoNearest(recs, S) ==
    <<Nearest(recs, S), Nearest(recs, {i \in S : recs[i] # Nearest(recs, S)})>>

(* The records the slots point to after the scan: <<inner, outer>> of the *)
(* records above the query (slots 1 and 0) and of those below it (slots 2 *)
(* and 3).                                                                *)
SlotRecords(recs, st) ==
    LET at(k) == IF st.sp.spline[k] = 0 THEN Nil ELSE recs[st.sp.spline[k]]
    IN  [above |-> <<at(1), at(0)>>, below |-> <<at(2), at(3)>>]

(* The selection the claim describes. *)
Neighbours(recs) ==
    [above |-> TwoNearest(recs, {i \in Usable(recs) : recs[i].Focal > arg}),
     below |-> TwoNearest(recs, {i \in Usable(recs) : recs[i].Focal < arg})]

(* The selection and the result are those of the list in the order p. *)
SameAsOrder(recs, p) ==
    LET other == Reordered(recs, p)
    IN  /\ SlotRecords(other, SplineScan(other)) = SlotRecords(recs, SplineScan(recs))
        /\ ResultOn(ListFrom(other)) = <<ret, res>>

(* C23 (corrected): with no exact match the slots hold, among the usable  *)
(* records, the nearest and second-nearest record below the query and the *)
(* nearest and second-nearest above it, the nearest of each side in the   *)
(* inner slot; the selection and the result are the same for every order  *)
(* of the records that leaves the same model first (every order for the   *)
(* field of view).                                                        *)
C23_Neighbours ==
    (op \in SplineOps /\ pre.alloc) =>
        LET recs == Records(pre)
            st   == SplineScan(recs)
        IN  st.match = 0 =>
                /\ SlotRecords(recs, st) = Neighbours(recs)
                /\ \A p \in Orders(Len(recs)) :
                       (op = "InterpolateFov" \/ FirstModel(Reordered(recs, p)) = FirstModel(recs))
                       => SameAsOrder(recs, p)

(* C23 as stated: the selection and the result are the same for every *)
(* order of the records.                                              *)
C23_AsStated ==
    (op \in SplineOps /\ pre.alloc) =>
        LET recs == Records(pre)
        IN  SplineScan(recs).match = 0 =>
                \A p \in Orders(Len(recs)) : SameAsOrder(recs, p)

(* Three records of one model, neither in ascending nor in descending   *)
(* order of Focal, two of them below the query: three slots are filled. *)
C23_Witness ==
    /\ op \in SplineOps
    /\ ret
    /\ LET recs == Records(pre)
       IN  /\ Len(recs) = 3
           /\ Usable(recs) = 1..3
           /\ recs[1].Focal > recs[3].Focal
           /\ recs[2].Focal > recs[1].Focal
           /\ arg > recs[1].Focal
           /\ arg < recs[2].Focal
           /\ SlotRecords(recs, SplineScan(recs)) =
                  [above |-> <<recs[2], Nil>>, below |-> <<recs[1], recs[3]>>]

(* The usable records all lie below the query focal, or all above it. *)
OneSided(recs) ==
    /\ Usable(recs) # {}
    /\ \/ \A i \in Usable(recs) : recs[i].Focal < arg
       \/ \A i \in Usable(recs) : recs[i].Focal > arg

(* C24 (confirmed): when every usable record lies on the same side of the *)
(* query focal, the spline interpolators return true and the output is    *)
(* the nearest usable record, unmodified: it carries the Focal of that    *)
(* record, not the queried one, and its terms are neither extrapolated    *)
(* nor rescaled.                                                          *)
C24_OneSided ==
    (op \in SplineOps /\ pre.alloc /\ OneSided(Records(pre))) =>
        /\ ret
        /\ res = Nearest(Records(pre), Usable(Records(pre)))
        /\ res.Focal # arg

(* Two usable records below the query, the farther one being the later  *)
(* in the list, and a record that is not usable above the query.        *)
C24_Witness ==
    /\ op \in SplineOps
    /\ pre.alloc
    /\ LET recs == Records(pre)
       IN  /\ OneSided(recs)
           /\ Len(recs) = 3
           /\ Usable(recs) = {1, 3}
           /\ recs[3].Focal < recs[1].Focal
           /\ recs[1].Focal < arg
           /\ recs[2].Focal > arg
           /\ res = recs[1]

(* The values one record holds for the last call, RealFocal being the   *)
(* value after the Terms of a distortion record.                        *)
ValuesOf(r) ==
    CASE op = "InterpolateDistortion" -> [i \in 0..5 |-> IF i < 5 THEN r.Terms[i] ELSE r.RealFocal]
      [] op = "InterpolateTCA"        -> r.Terms
      [] op = "InterpolateCrop"       -> r.Crop
      [] OTHER                        -> [i \in 0..0 |-> r.FieldOfView]

(* The scale factor of value i at the focal f under the model m. *)
ScaleOf(f, m, i) ==
    CASE op = "InterpolateDistortion" /\ i < 5 -> __parameter_scales(R(f), "LF_MODIFY_DISTORTION", m, i)
      [] op = "InterpolateTCA"                 -> __parameter_scales(R(f), "LF_MODIFY_TCA", m, i)
      [] OTHER                                 -> R(1)

(* (1 - t) * y2 + t * y3 on the scaled values of the inner records r2   *)
(* and r3, divided by the scale at the query focal.                     *)
Linear(r2, r3, m, t, i) ==
    RDiv(RAdd(RMul(RSub(R(1), t), RMul(ValuesOf(r2)[i], ScaleOf(r2.Focal, m, i))),
              RMul(t, RMul(ValuesOf(r3)[i], ScaleOf(r3.Focal, m, i)))),
         ScaleOf(arg, m, i))

(* C25 (confirmed): when both inner slots are filled the two inner      *)
(* focals differ and t = (f - f_inner1) / (f_inner2 - f_inner1) lies    *)
(* strictly between 0 and 1; when both outer slots are empty as well,   *)
(* every interpolated value is the linear interpolation                 *)
(* (1 - t) * y2 + t * y3 of the two scaled inner values.                *)
C25_LinearSpline ==
    (op \in SplineOps /\ pre.alloc) =>
        LET recs == Records(pre)
            st   == SplineScan(recs)
            sp   == st.sp
            r2   == recs[sp.spline[1]]
            r3   == recs[sp.spline[2]]
            t    == SplineT(recs, sp, arg)
        IN  (st.match = 0 /\ sp.spline[1] # 0 /\ sp.spline[2] # 0) =>
                /\ r2.Focal # r3.Focal
                /\ RLess(R(0), t)
                /\ RLess(t, R(1))
                /\ (sp.spline[0] = 0 /\ sp.spline[3] = 0) =>
                       \A i \in DOMAIN ValuesOf(res) :
                           ValuesOf(res)[i] = Linear(r2, r3, st.model, t, i)

(* An ACM distortion query between two records, no outer neighbour, t  *)
(* not 1/2 and a term whose scaled inner values differ.                *)
C25_Witness ==
    /\ op = "InterpolateDistortion"
    /\ ret
    /\ ModelOf(res) = "LF_DIST_MODEL_ACM"
    /\ LET recs == Records(pre)
           sp   == SplineScan(recs).sp
       IN  /\ SplineScan(recs).match = 0
           /\ sp.spline[1] # 0
           /\ sp.spline[2] # 0
           /\ sp.spline[0] = 0
           /\ sp.spline[3] = 0
           /\ SplineT(recs, sp, arg) # Rat(1, 2)
           /\ res.Terms[0] = Linear(recs[sp.spline[1]], recs[sp.spline[2]], "LF_DIST_MODEL_ACM",
                                    SplineT(recs, sp, arg), 0)
           /\ res.Terms[0] # recs[sp.spline[1]].Terms[0]
           /\ res.Terms[0] # recs[sp.spline[2]].Terms[0]

(* f / f^e *)
OverPower(f, e) == Rat(f, f ^ e)

(* C26 (confirmed): the scale factor of term i at the focal f is f for    *)
(* POLY3, POLY5 and PTLENS distortion and for the terms i >= 2 of LINEAR  *)
(* and POLY3 TCA; 1 for the terms 0 and 1 of LINEAR and POLY3 TCA and for *)
(* PA vignetting; f / f^e with e = 2 (i + 1) for i < 3 and e = 1          *)
(* otherwise for ACM distortion; f / f^e with e = 2 * floor(i / 2) for    *)
(* 1 < i < 8 and e = 1 otherwise for ACM TCA; 1 / f^(2 (i + 1)) for ACM   *)
(* vignetting.                                                            *)
C26_ScaleTable ==
    op = "__parameter_scales" =>
        LET f     == arg[1]
            type  == arg[2]
            model == arg[3]
            i     == arg[4]
        IN  /\ (type = "LF_MODIFY_DISTORTION"
                /\ model \in {"LF_DIST_MODEL_POLY3", "LF_DIST_MODEL_POLY5", "LF_DIST_MODEL_PTLENS"})
               => ret = R(f)
            /\ (type = "LF_MODIFY_TCA" /\ model \in {"LF_TCA_MODEL_LINEAR", "LF_TCA_MODEL_POLY3"})
               => ret = IF i >= 2 THEN R(f) ELSE R(1)
            /\ (type = "LF_MODIFY_VIGNETTING" /\ model = "LF_VIGNETTING_MODEL_PA")
               => ret = R(1)
            /\ (type = "LF_MODIFY_DISTORTION" /\ model = "LF_DIST_MODEL_ACM")
               => ret = OverPower(f, IF i < 3 THEN 2 * (i + 1) ELSE 1)
            /\ (type = "LF_MODIFY_TCA" /\ model = "LF_TCA_MODEL_ACM")
               => ret = OverPower(f, IF 1 < i /\ i < 8 THEN 2 * (i \div 2) ELSE 1)
            /\ (type = "LF_MODIFY_VIGNETTING" /\ model = "LF_VIGNETTING_MODEL_ACM")
               => ret = Rat(1, f ^ (2 * (i + 1)))

(* Term 5 of ACM TCA at the focal 3: e = 4 and the factor is 1 / 27. *)
C26_Witness ==
    /\ op = "__parameter_scales"
    /\ arg = <<3, "LF_MODIFY_TCA", "LF_TCA_MODEL_ACM", 5>>
    /\ ret = Rat(1, 27)

(* C27 (confirmed): GuessParameters only fills empty fields: each of     *)
(* MinFocal, MaxFocal, MinAperture and MaxAperture that is not 0 before  *)
(* the call has the same value after it, and Maker, Model, the mount     *)
(* list, CropFactor, AspectRatio, Type (with CenterX and CenterY) and    *)
(* the five calibration lists are left as they were.                     *)
C27_OnlyFillsEmpty ==
    [][op' = "GuessParameters" =>
          /\ MinFocal # 0 => MinFocal' = MinFocal
          /\ MaxFocal # 0 => MaxFocal' = MaxFocal
          /\ MinAperture # 0 => MinAperture' = MinAperture
          /\ MaxAperture # 0 => MaxAperture' = MaxAperture
          /\ UNCHANGED <<Maker, Model, Mounts, Geometry, Lists>>]_vars

(* A call on a lens with a name and calibration data that kept the      *)
(* MinFocal it found, which is not the one the name gives, and filled   *)
(* MaxFocal and MinAperture.                                            *)
C27_Witness ==
    /\ op = "GuessParameters"
    /\ Model = "4mm f/2"
    /\ CalibDistortion.alloc
    /\ pre.MinFocal = 3
    /\ MinFocal = 3
    /\ pre.MaxFocal = 0
    /\ MaxFocal # 0
    /\ pre.MinAperture = 0
    /\ MinAperture # 0

(* Output records with other prior contents than the one of the last call. *)
OtherPriors ==
    {[Model |-> "LF_DIST_MODEL_ACM", Focal |-> 8, RealFocal |-> R(8),
      RealFocalMeasured |-> b, Terms |-> [i \in 0..4 |-> R(6)]] : b \in BOOLEAN}

(* C28 as stated: when InterpolateDistortion returns true, a call with  *)
(* the same list and focal and any other prior content of the output    *)
(* record produces the same output record.                              *)
C28_AsStated ==
    (op = "InterpolateDistortion" /\ ret) =>
        \A out \in OtherPriors : InterpolateDistortion(pre, arg, out).res = res

(* What the code does keep: the outputs agree on Model, Focal, RealFocal *)
(* and Terms on every path, and on RealFocalMeasured when the output is  *)
(* a record of the list.                                                 *)
C28_ButMeasured ==
    (op = "InterpolateDistortion" /\ ret) =>
        \A out \in OtherPriors :
            LET other == InterpolateDistortion(pre, arg, out).res
            IN  /\ [other EXCEPT !.RealFocalMeasured = res.RealFocalMeasured] = res
                /\ (\E i \in 1..Len(Records(pre)) : Verbatim(Records(pre), i)) => other = res

(* C29 as stated: the reference counter of the lens-name regular        *)
(* expressions equals the number of live lfLens objects, so they are    *)
(* released when the last live lens is destroyed and not before, and no *)
(* regular expression is used while its compiled flag is false.         *)
C29_AsStated ==
    /\ _lf_lens_regex_refs = live
    /\ (op = "lf_lens_destroy" /\ live > 0) => lens_name_regex = pre.compiled
    /\ live = 0 => \A i \in 0..2 : ~lens_name_regex[i]
    /\ ~uncompiled_use

(* What the code does keep: regexec never runs on a regular expression  *)
(* that is not compiled, and the counter never exceeds the number of    *)
(* live objects.                                                        *)
C29_CompiledWhenUsed ==
    /\ ~uncompiled_use
    /\ _lf_lens_regex_refs <= live

====
